---- MODULE Spec2Model ----
(***************************************************************************)
(* Verification model of aws-slurm-burst-advisor.                          *)
(*                                                                         *)
(*  - Spec       : performAnalysis, the two partition analyses, the        *)
(*                 channel-closing goroutine and the collecting loop.      *)
(*  - SpecStore  : the job history store (JobHistoryDB), statement by      *)
(*                 statement, with concurrent FindSimilarJobs readers.     *)
(*  - SpecCache  : the pricing cache of PricingClient.GetInstancePricing   *)
(*                 under concurrent callers.                               *)
(*  - SpecAdvise : the advisor pipeline on one request: the decision        *)
(*                 engine, the history-aware optimizer and the execution   *)
(*                 plan generator.                                         *)
(***************************************************************************)
EXTENDS Integers, Sequences, FiniteSets, TLC

\* ------------------------------------------------------------------ bounds

\* Job ids a caller of StoreJobExecution may use: 1..MaxJobID.
MaxJobID == 2

\* StoreJobExecution calls per behaviour of SpecStore.
MaxStores == 2

\* Rows one sacct query returns to collectJobHistory.
MaxSacctRows == 2

\* Seconds of wall-clock time the join is followed for.
MaxTime == 62

\* Concurrent callers of GetInstancePricing.
MaxCallers == 2

\* GetInstancePricing calls each caller makes.
MaxCalls == 2

\* Seconds the pricing cache is followed for.
MaxCacheTime == 17

\* The most earlier runs of a script the advisor finds in the store.
MaxRuns == 5

\* ------------------------------------------------------- program constants

\* time.After(30 * time.Second) in the collecting loop.
AnalysisTimeout == 30

\* defaultTimeout of the SLURM client, in seconds.
defaultTimeout == 30

\* LIMIT 20 of getJobsByScriptHash.
ExactLimit == 20

\* LIMIT 10 of getJobsBySimilarResources.
SimilarLimit == 10

\* len(exactMatches) < 3 in FindSimilarJobs.
FewExactMatches == 3

\* cacheTTL: 15 * time.Minute, in minutes.
cacheTTL == 15

\* for i := 0; i < 2; i++ in performAnalysis: the collecting loop's bound.
LoopCount == 2

\* len(history) < 2 in generateResourceOptimizations: the fewest runs used.
MinHistory == 2

\* len(jobs) >= 3 in generateHistoryInsights: the fewest runs for a pattern.
PatternRuns == 3

\* ----------------------------------------------------------------- helpers

Min(a, b) == IF a <= b THEN a ELSE b

RECURSIVE GCD(_, _)
GCD(a, b) == IF b = 0 THEN a ELSE GCD(b, a % b)

\* Exact rationals n/d (d > 0) stand for the float64 columns of the store.
Rat(n, d) == LET g == GCD(n, d) IN IF g = 0 THEN [n |-> 0, d |-> 1] ELSE [n |-> n \div g, d |-> d \div g]

RatLE(a, b) == a.n * b.d <= b.n * a.d

RatAdd(a, b) == Rat(a.n * b.d + b.n * a.d, a.d * b.d)

RatMul(a, b) == Rat(a.n * b.n, a.d * b.d)

\* int(x) for a non-negative rational: truncation.
RatTrunc(a) == a.n \div a.d

Max(a, b) == IF a >= b THEN a ELSE b

RatSub(a, b) == Rat(a.n * b.d - b.n * a.d, a.d * b.d)

RatLT(a, b) == a.n * b.d < b.n * a.d

RatAbs(a) == IF a.n < 0 THEN [n |-> 0 - a.n, d |-> a.d] ELSE a

\* A whole number as a rational.
RatInt(k) == [n |-> k, d |-> 1]

\* ------------------------------------------------------------- job history
\* A run handed to StoreJobExecution (types.JobEfficiencyData). The float64
\* columns are exact rationals; durations are whole seconds, as the store keeps
\* them. The columns that updateJobPattern averages with the same formula as
\* cpu_efficiency (memory efficiency, effective CPUs, the two ratios) are
\* represented by cpu_efficiency.

\* CalculateEfficiencies: GB per requested CPU, left 0 when RequestedCPUs = 0.
RequestedCPUMemRatio(memMB, cpus) == IF cpus > 0 THEN Rat(memMB, 1024 * cpus) ELSE Rat(0, 1)

\* The resource shapes runs are drawn from.
Shapes ==
    << [SubmissionTime |-> 1, RequestedCPUs |-> 1, RequestedMemoryMB |-> 1024,
        CPUEfficiency |-> 45, MemoryEfficiency |-> 50, TimeEfficiency |-> 50,
        MaxMemoryUsedMB |-> 512, ActualCPUMemRatio |-> 1,
        ActualTime |-> 100, ExecutionPlatform |-> "local"],
       [SubmissionTime |-> 2, RequestedCPUs |-> 4, RequestedMemoryMB |-> 8192,
        CPUEfficiency |-> 90, MemoryEfficiency |-> 85, TimeEfficiency |-> 80,
        MaxMemoryUsedMB |-> 6963, ActualCPUMemRatio |-> 2,
        ActualTime |-> 201, ExecutionPlatform |-> "aws"] >>

ScriptHashes == {"", "a"}

ExitCodes == {0, 1}

JobEfficiencyData(id, hash, exit, shape) ==
    [JobID |-> id, ScriptHash |-> hash, ExitCode |-> exit,
     SubmissionTime |-> shape.SubmissionTime,
     RequestedCPUs |-> shape.RequestedCPUs,
     RequestedMemoryMB |-> shape.RequestedMemoryMB,
     RequestedCPUMemRatio |-> RequestedCPUMemRatio(shape.RequestedMemoryMB, shape.RequestedCPUs),
     CPUEfficiency |-> Rat(shape.CPUEfficiency, 1),
     MemoryEfficiency |-> Rat(shape.MemoryEfficiency, 1),
     TimeEfficiency |-> Rat(shape.TimeEfficiency, 1),
     MaxMemoryUsedMB |-> shape.MaxMemoryUsedMB,
     ActualCPUMemRatio |-> Rat(shape.ActualCPUMemRatio, 1),
     ActualTime |-> shape.ActualTime,
     ExecutionPlatform |-> shape.ExecutionPlatform]

\* The shape of the run with job id `id`: the shapes in turn.
ShapeOf(id) == Shapes[((id - 1) % Len(Shapes)) + 1]

\* The runs a caller may store: a job id has one submission and one resource
\* request; the script hash found for it and its exit code vary.
JobInputs ==
    { JobEfficiencyData(id, h, e, ShapeOf(id)) :
        id \in 1..MaxJobID, h \in ScriptHashes, e \in ExitCodes }

\* IsSuccessful
IsSuccessful(job) == job.ExitCode = 0

\* The job_history row the INSERT OR REPLACE statement writes for a run.
JobRow(job) ==
    [job_id |-> job.JobID, script_hash |-> job.ScriptHash,
     submission_time |-> job.SubmissionTime,
     req_cpus |-> job.RequestedCPUs, req_memory_mb |-> job.RequestedMemoryMB,
     req_cpu_mem_ratio |-> job.RequestedCPUMemRatio,
     actual_time_seconds |-> job.ActualTime,
     cpu_efficiency |-> job.CPUEfficiency,
     memory_efficiency |-> job.MemoryEfficiency,
     time_efficiency |-> job.TimeEfficiency,
     max_memory_mb |-> job.MaxMemoryUsedMB,
     actual_cpu_mem_ratio |-> job.ActualCPUMemRatio,
     exit_code |-> job.ExitCode, execution_platform |-> job.ExecutionPlatform]

\* INSERT OR REPLACE INTO job_history: job_id is the primary key.
InsertOrReplaceRow(history, job) ==
    [id \in DOMAIN history \cup {job.JobID} |->
        IF id = job.JobID THEN JobRow(job) ELSE history[id]]

\* The pattern updateJobPattern starts from when getJobPattern finds none.
NewPattern(hash) ==
    [script_hash |-> hash, run_count |-> 0, last_run |-> 0,
     avg_cpu_efficiency |-> Rat(0, 1), avg_runtime_seconds |-> 0,
     success_rate |-> Rat(0, 1), local_executions |-> 0, aws_executions |-> 0,
     preferred_platform |-> ""]

\* pattern.X*(1-weight) + x*weight with weight = 1/RunCount
RunningAverage(avg, x, runCount) ==
    RatAdd(RatMul(avg, Rat(runCount - 1, runCount)), RatMul(x, Rat(1, runCount)))

\* The pattern updateJobPattern computes from the current one and a run.
UpdatedPattern(pattern, job) ==
    LET runCount == pattern.run_count + 1
        local == pattern.local_executions + (IF job.ExecutionPlatform = "aws" THEN 0 ELSE 1)
        aws == pattern.aws_executions + (IF job.ExecutionPlatform = "aws" THEN 1 ELSE 0)
    IN  [script_hash |-> pattern.script_hash,
         run_count |-> runCount,
         last_run |-> job.SubmissionTime,
         avg_cpu_efficiency |->
            IF runCount = 1 THEN job.CPUEfficiency
            ELSE RunningAverage(pattern.avg_cpu_efficiency, job.CPUEfficiency, runCount),
         avg_runtime_seconds |->
            IF runCount = 1 THEN job.ActualTime
            ELSE RatTrunc(RunningAverage(Rat(pattern.avg_runtime_seconds, 1),
                                         Rat(job.ActualTime, 1), runCount)),
         success_rate |->
            IF IsSuccessful(job)
            THEN Rat(pattern.success_rate.n * (runCount - 1) + pattern.success_rate.d,
                     pattern.success_rate.d * runCount)
            ELSE Rat(pattern.success_rate.n * (runCount - 1),
                     pattern.success_rate.d * runCount),
         local_executions |-> local,
         aws_executions |-> aws,
         preferred_platform |-> IF aws > local THEN "aws" ELSE "local"]

\* getJobPattern: the stored pattern, or an error (sql.ErrNoRows or any other
\* failure of the query, readOK = FALSE), on which updateJobPattern starts a new one.
getJobPattern(patterns, hash, readOK) ==
    IF readOK /\ hash \in DOMAIN patterns THEN patterns[hash] ELSE NewPattern(hash)

\* storeJobPattern: INSERT OR REPLACE INTO job_patterns, script_hash the key.
storeJobPattern(patterns, pattern) ==
    [h \in DOMAIN patterns \cup {pattern.script_hash} |->
        IF h = pattern.script_hash THEN pattern ELSE patterns[h]]

\* updateJobPattern: nothing without a script hash; otherwise read, update, and
\* write (writeOK = FALSE: the write fails and the table is left as it was).
updateJobPattern(patterns, job, readOK, writeOK) ==
    IF job.ScriptHash = "" THEN patterns
    ELSE IF ~writeOK THEN patterns
    ELSE storeJobPattern(patterns,
            UpdatedPattern(getJobPattern(patterns, job.ScriptHash, readOK), job))

\* A whole successful StoreJobExecution call on a store db = [history, patterns].
StoreJobExecution(db, job) ==
    [history |-> InsertOrReplaceRow(db.history, job),
     patterns |-> updateJobPattern(db.patterns, job, TRUE, TRUE)]

EmptyDB == [history |-> << >>, patterns |-> << >>]

RECURSIVE StoreAll(_, _)
StoreAll(db, jobs) ==
    IF jobs = << >> THEN db ELSE StoreAll(StoreJobExecution(db, Head(jobs)), Tail(jobs))

\* --------------------------------------------------------- FindSimilarJobs
\* A memory string of a JobRequest: a number and a unit suffix. unit "" is a
\* bare number, "T" a suffix ParseMemoryString does not know, "0.1G" a number
\* of tenths written with one decimal and the suffix G, and EmptyMemory the
\* empty string.
EmptyMemory == [num |-> 0, unit |-> "empty"]

\* ParseMemoryString: megabytes, or an error.
ParseMemoryString(mem) ==
    CASE mem.unit = "empty" -> [ok |-> TRUE, mb |-> 0]
      [] mem.unit = "G" -> [ok |-> TRUE, mb |-> mem.num * 1024]
      [] mem.unit = "M" -> [ok |-> TRUE, mb |-> mem.num]
      [] mem.unit = "K" -> [ok |-> TRUE, mb |-> mem.num \div 1024]
      [] mem.unit = "" -> [ok |-> TRUE, mb |-> mem.num]
      [] mem.unit = "0.1G" -> [ok |-> TRUE, mb |-> (mem.num * 1024) \div 10]
      [] OTHER -> [ok |-> FALSE, mb |-> 0]

\* JobRequest.TotalCPUs
TotalCPUs(req) == req.Nodes * req.NTasksPerNode * req.CPUsPerTask

\* The request of a run of shape s: one task of s.RequestedCPUs CPUs on one node.
RequestOf(s) ==
    [Nodes |-> 1, NTasksPerNode |-> 1, CPUsPerTask |-> s.RequestedCPUs,
     Memory |-> [num |-> s.RequestedMemoryMB, unit |-> "M"]]

\* The requests FindSimilarJobs is called with.
JobRequests ==
    { RequestOf(Shapes[v]) : v \in 1..Len(Shapes) } \cup
    { [Nodes |-> 1, NTasksPerNode |-> 1, CPUsPerTask |-> 3, Memory |-> [num |-> 2, unit |-> "G"]],
      [Nodes |-> 1, NTasksPerNode |-> 2, CPUsPerTask |-> 3, Memory |-> [num |-> 2, unit |-> "G"]],
      [Nodes |-> 2, NTasksPerNode |-> 1, CPUsPerTask |-> 1, Memory |-> [num |-> 4, unit |-> "T"]],
      [Nodes |-> 2, NTasksPerNode |-> 1, CPUsPerTask |-> 1, Memory |-> EmptyMemory] }

\* The rows of a table, as a set.
Rows(history) == { history[id] : id \in DOMAIN history }

\* ORDER BY submission_time DESC: every ordering of the rows that SQL may
\* produce (rows of equal submission_time come in any order).
RECURSIVE OrderBySubmissionTimeDesc(_)
OrderBySubmissionTimeDesc(rows) ==
    IF rows = {} THEN { << >> }
    ELSE LET latest == { r \in rows : \A q \in rows : q.submission_time <= r.submission_time }
         IN  UNION { { <<r>> \o rest : rest \in OrderBySubmissionTimeDesc(rows \ {r}) } :
                     r \in latest }

\* A LIMIT that keeps one row too few.
LimitOffByOne(rows, n) == SubSeq(rows, 1, Min(n - 1, Len(rows)))

\* LIMIT n
Limit(rows, n) == SubSeq(rows, 1, Min(n, Len(rows)))

\* getJobsByScriptHash: the results the query may return.
getJobsByScriptHash(history, scriptHash) ==
    { Limit(rows, ExactLimit) :
        rows \in OrderBySubmissionTimeDesc(
            { r \in Rows(history) : r.script_hash = scriptHash /\ r.exit_code = 0 }) }

\* cpuMemRatio of getJobsBySimilarResources
PatternCPUMemRatio(pattern) ==
    LET mem == ParseMemoryString(pattern.Memory)
    IN  IF pattern.Nodes > 0 /\ pattern.CPUsPerTask > 0
           /\ pattern.Memory # EmptyMemory /\ mem.ok
        THEN Rat(mem.mb, 1024 * (pattern.Nodes * pattern.CPUsPerTask))
        ELSE Rat(0, 1)

\* totalCPUs of getJobsBySimilarResources
PatternTotalCPUs(pattern) == pattern.Nodes * pattern.CPUsPerTask

\* cpuMin: int(float64(totalCPUs)*0.5)
SimilarCPUMin(pattern) == RatTrunc(Rat(PatternTotalCPUs(pattern), 2))

\* cpuMax: int(float64(totalCPUs)*2.0)
SimilarCPUMax(pattern) == PatternTotalCPUs(pattern) * 2

\* The WHERE clause of getJobsBySimilarResources (req_cpu_mem_ratio is never NULL:
\* StoreJobExecution always binds a float64).
SimilarResourcesWhere(r, pattern) ==
    /\ r.exit_code = 0
    /\ SimilarCPUMin(pattern) <= r.req_cpus
    /\ r.req_cpus <= SimilarCPUMax(pattern)
    /\ RatLE(RatMul(PatternCPUMemRatio(pattern), Rat(1, 2)), r.req_cpu_mem_ratio)
    /\ RatLE(r.req_cpu_mem_ratio, RatMul(PatternCPUMemRatio(pattern), Rat(2, 1)))

\* getJobsBySimilarResources: the results the query may return.
getJobsBySimilarResources(history, pattern) ==
    { Limit(rows, SimilarLimit) :
        rows \in OrderBySubmissionTimeDesc(
            { r \in Rows(history) : SimilarResourcesWhere(r, pattern) }) }

\* FindSimilarJobs: the results a call may return. jobs is the returned list,
\* exact \o similar; the second query runs only after fewer than three exact matches.
FindSimilarJobs(history, scriptHash, resourcePattern) ==
    UNION { { [exact |-> e, similar |-> s, jobs |-> e \o s] :
                s \in IF Len(e) < FewExactMatches
                      THEN getJobsBySimilarResources(history, resourcePattern)
                      ELSE { << >> } } :
            e \in getJobsByScriptHash(history, scriptHash) }

\* A store that already holds ExactLimit successful runs of script "a", stored
\* one by one by earlier invocations (job ids 101.., submitted at 11, 12, ...).
RECURSIVE EarlierRuns(_)
EarlierRuns(k) ==
    IF k = 0 THEN << >>
    ELSE Append(EarlierRuns(k - 1),
            JobEfficiencyData(100 + k, "a", 0,
                [SubmissionTime |-> 10 + k, RequestedCPUs |-> 4, RequestedMemoryMB |-> 8192,
                 CPUEfficiency |-> 80, MemoryEfficiency |-> 80, TimeEfficiency |-> 80,
                 MaxMemoryUsedMB |-> 6554, ActualCPUMemRatio |-> 2,
                 ActualTime |-> 300, ExecutionPlatform |-> "local"]))

FullDB == StoreAll(EmptyDB, EarlierRuns(ExactLimit))

\* ------------------------------------------------------------------- state

VARIABLES
    \* the history store: the job_history and job_patterns tables
    jobHistory, jobPatterns,
    \* the StoreJobExecution call in progress, between its two statements
    storeCall,
    \* StoreJobExecution calls made so far
    stores,
    \* the last FindSimilarJobs call and what it returned
    found,
    \* performAnalysis: where the calling goroutine is, and how it ended
    mainPc, outcome,
    \* the flags --track-history and (historyAnalyzer != nil)
    trackHistory, historyAnalyzer,
    \* statements executed on the history store by this invocation
    dbWrites,
    \* the collecting loop: its counter i, and the two analyses it has received
    loopI, targetAnalysis, burstAnalysis,
    \* seconds since the goroutines were launched; when the loop was entered;
    \* when the time.After timer of the current select was created
    now, joinStart, selectStart,
    \* the two analysis goroutines: the call each is in, and when it began
    targetPc, burstPc, callStart,
    \* the analyses that ended with an error
    failed,
    \* the channels results and errors (buffered, capacity 2) and whether closed
    results, errors, resultsClosed, errorsClosed,
    \* the WaitGroup counter and the goroutine that closes the channels
    wg, closerPc,
    \* whether the context handed to performAnalysis is cancelled
    ctxDone,
    \* PricingClient.cache: for each key, the minute it was last updated
    cache,
    \* the GetInstancePricing callers: where each is, the key it asked for,
    \* and the calls it has completed
    callerPc, callerKey, callerCalls,
    \* minutes since the PricingClient was constructed
    cacheNow,
    \* the advisor pipeline (Compare, AnalyzeWithHistory, GenerateExecutionPlan):
    \* the call that has returned last
    advPc,
    \* its inputs: DecisionEngine.weights and the two partition analyses
    weights, localPartition, awsPartition,
    \* the JobRequest structs in memory, by address, and the TRES maps they
    \* point to, by reference
    requests, tres,
    \* whether historyDB.FindSimilarJobs returned an error
    lookup,
    \* what Compare, AnalyzeWithHistory and GenerateExecutionPlan returned
    recommendation, enhanced, plan,
    \* the submit script handed to the burst commands, and what ParseBatchScript
    \* returned for it
    script, batch,
    \* the command that was given the script
    command,
    \* what DetectDomain returned for the script and the request
    classification,
    \* what AnalyzeWithBudgetConstraints returned
    budgetAnalysis,
    \* what ExecutionPlan.ToJSON returned, the file SaveExecutionPlan wrote, and
    \* what LoadExecutionPlan returned for it
    serialized, planFile, loaded

storeVars == <<jobHistory, jobPatterns, storeCall, stores, found>>

mainVars == <<mainPc, outcome, trackHistory, historyAnalyzer, dbWrites,
              loopI, targetAnalysis, burstAnalysis>>

clockVars == <<now, joinStart, selectStart>>

goVars == <<targetPc, burstPc, callStart, failed, results, errors,
            resultsClosed, errorsClosed, wg, closerPc, ctxDone>>

joinVars == <<mainVars, clockVars, goVars>>

cacheVars == <<cache, callerPc, callerKey, callerCalls, cacheNow>>

burstVars == <<script, batch, command, classification, budgetAnalysis, serialized, planFile, loaded>>

adviseVars == <<advPc, weights, localPartition, awsPartition, requests, tres,
                lookup, recommendation, enhanced, plan, burstVars>>

vars == <<storeVars, joinVars, cacheVars, adviseVars>>

\* No StoreJobExecution call is between its statements.
NoCall == << >>

\* No FindSimilarJobs result is held.
NoResult == << >>

\* performAnalysis has not been called: the state of the join in SpecStore.
JoinIdle ==
    /\ mainPc = "idle" /\ outcome = "none"
    /\ trackHistory = FALSE /\ historyAnalyzer = FALSE
    /\ dbWrites = 0 /\ loopI = 0
    /\ targetAnalysis = "nil" /\ burstAnalysis = "nil"
    /\ now = 0 /\ joinStart = 0 /\ selectStart = 0
    /\ targetPc = "none" /\ burstPc = "none"
    /\ callStart = [g \in {"target", "burst"} |-> 0]
    /\ failed = {}
    /\ results = << >> /\ errors = << >>
    /\ resultsClosed = FALSE /\ errorsClosed = FALSE
    /\ wg = 0 /\ closerPc = "none"
    /\ ctxDone = FALSE

\* The instance types and regions a partition may be configured with.
PricingKeys == {"c5.large-us-east-1", "p3.2xlarge-us-west-2"}

\* The callers of GetInstancePricing.
Callers == 1..MaxCallers

\* A PricingClient as NewPricingClient returns it, with no caller in it.
CacheIdle ==
    /\ cache = [k \in PricingKeys |-> << >>]
    /\ callerPc = [c \in Callers |-> "idle"]
    /\ callerKey = [c \in Callers |-> "c5.large-us-east-1"]
    /\ callerCalls = [c \in Callers |-> 0]
    /\ cacheNow = 0

\* ---------------------------------------------------------- decision engine
\* DecisionEngine.Compare and what it calls.  Durations are whole minutes,
\* costs whole cents, scores and weights exact rationals.

\* A nil *CostBreakdown.
NilRef == [nil |-> TRUE]

\* A value no call has produced yet.
NoValue == [none |-> TRUE]

\* A call that ended in a nil-pointer panic instead of returning.
Panic == [panic |-> TRUE]

\* No burst command has been given a script.
BurstIdle ==
    /\ script = NoValue /\ batch = NoValue /\ command = NoValue
    /\ classification = NoValue
    /\ budgetAnalysis = NoValue
    /\ serialized = NoValue /\ planFile = NoValue /\ loaded = NoValue

\* The number of GPUs a request asks for: job.TRES["gpu"], 0 for a nil map.
GPUs(job) == IF job.TRES = "nil" THEN 0 ELSE tres[job.TRES]

\* calculateScore: 100 minus 10 points per hour of wait, not below 0.
TimeScore(analysis) ==
    LET timeScore == Rat(600 - analysis.EstimatedWaitTime, 6)
    IN  IF RatLT(timeScore, RatInt(0)) THEN RatInt(0) ELSE timeScore

\* calculateScore: 100 minus the cost as a percentage of $100, not below 0.
CostScore(analysis) ==
    LET costScore == Rat(10000 - analysis.EstimatedCost.TotalCost, 100)
    IN  IF RatLT(costScore, RatInt(0)) THEN RatInt(0) ELSE costScore

\* calculateScore: the availability factor.
AvailScore(analysis) ==
    IF analysis.Type = "aws" THEN RatInt(90)
    ELSE IF analysis.AvailableNodes > 0 /\ analysis.TotalNodes > 0
         THEN Rat(100 * analysis.AvailableNodes, analysis.TotalNodes)
         ELSE RatInt(50)

calculateScore(analysis, w) ==
    RatAdd(RatAdd(RatMul(TimeScore(analysis), w.TimeWeight),
                  RatMul(CostScore(analysis), w.CostWeight)),
           RatMul(AvailScore(analysis), w.ReliabilityWeight))

\* calculateConfidence without its lower bound of 0.1.
calculateConfidenceNoFloor(localScore, awsScore) ==
    LET confidence == RatMul(RatAbs(RatSub(localScore, awsScore)), Rat(1, 100))
    IN  IF RatLT(RatInt(1), confidence) THEN RatInt(1) ELSE confidence

\* calculateConfidence: |localScore - awsScore| / 100, kept within [0.1, 1.0].
calculateConfidence(localScore, awsScore) ==
    LET confidence == RatMul(RatAbs(RatSub(localScore, awsScore)), Rat(1, 100))
    IN  IF RatLT(RatInt(1), confidence) THEN RatInt(1)
        ELSE IF RatLT(confidence, Rat(1, 10)) THEN Rat(1, 10)
        ELSE confidence

\* generateReasoning: the sentences, by kind, in the order they are appended.
generateReasoning(local, aws, job, costDiff, timeSavings) ==
    LET time  == IF timeSavings > 30 THEN <<"time-savings">>
                 ELSE IF timeSavings < -30 THEN <<"local-faster">> ELSE << >>
        cost  == IF costDiff > 500 THEN <<"aws-costs-more">>
                 ELSE IF costDiff < -500 THEN <<"aws-costs-less">> ELSE << >>
        queue == IF local.QueueDepth > 5 THEN <<"queue-load">> ELSE << >>
        gpu   == IF GPUs(job) > 0 /\ aws.InstanceType # "" THEN <<"gpu-instance">> ELSE << >>
        reasoning == time \o cost \o queue \o gpu
    IN  IF Len(reasoning) = 0 THEN <<"overall-optimization">> ELSE reasoning

\* Compare with the comparison of the two scores turned into >=.
PreferredAtLeast(localScore, awsScore) ==
    IF ~RatLT(awsScore, localScore) THEN "aws" ELSE "local"

\* Compare: preferred := local; if awsScore > localScore { preferred = aws }.
Preferred(localScore, awsScore) ==
    IF RatLT(localScore, awsScore) THEN "aws" ELSE "local"

\* Compare.  local.EstimatedCost and aws.EstimatedCost are pointers that the
\* function dereferences without a nil check.
Compare(local, aws, job, w) ==
    IF local.EstimatedCost = NilRef \/ aws.EstimatedCost = NilRef THEN Panic
    ELSE
    LET localTime   == local.EstimatedWaitTime + job.TimeLimit
        awsTime     == aws.StartupTime + job.TimeLimit
        costDiff    == aws.EstimatedCost.TotalCost - local.EstimatedCost.TotalCost
        timeSavings == localTime - awsTime
        localScore  == calculateScore(local, w)
        awsScore    == calculateScore(aws, w)
    IN  [Preferred      |-> Preferred(localScore, awsScore),
         TimeSavings    |-> timeSavings,
         CostDifference |-> costDiff,
         Confidence     |-> calculateConfidence(localScore, awsScore),
         Reasoning      |-> generateReasoning(local, aws, job, costDiff, timeSavings),
         Score          |-> RatSub(awsScore, localScore)]

\* No request has been handed to the advisor pipeline.
AdviseIdle ==
    /\ advPc = "idle"
    /\ weights = NoValue /\ localPartition = NoValue /\ awsPartition = NoValue
    /\ requests = NoValue /\ tres = NoValue /\ lookup = NoValue
    /\ recommendation = NoValue /\ enhanced = NoValue /\ plan = NoValue
    /\ BurstIdle

\* --------------------------------------------------- history-aware optimizer
\* HistoryAwareAnalyzer.  Efficiencies are percentages as exact rationals.

\* scanJobRows: the JobEfficiencyData read back from a job_history row.
scanJobRows(r) ==
    [JobID |-> r.job_id, ScriptHash |-> r.script_hash, ExitCode |-> r.exit_code,
     SubmissionTime |-> r.submission_time,
     RequestedCPUs |-> r.req_cpus, RequestedMemoryMB |-> r.req_memory_mb,
     RequestedCPUMemRatio |-> r.req_cpu_mem_ratio,
     CPUEfficiency |-> r.cpu_efficiency,
     MemoryEfficiency |-> r.memory_efficiency,
     TimeEfficiency |-> r.time_efficiency,
     MaxMemoryUsedMB |-> r.max_memory_mb,
     ActualCPUMemRatio |-> r.actual_cpu_mem_ratio,
     ActualTime |-> r.actual_time_seconds,
     ExecutionPlatform |-> r.execution_platform]

\* FormatMemoryMB: "%dM" below 1024 MB, "%.1fG" below 1024 GB, otherwise a
\* string with the suffix T.
FormatMemoryMB(mb) ==
    IF mb < 1024 THEN [num |-> mb, unit |-> "M"]
    ELSE IF mb < 1024 * 1024
         THEN [num |-> (mb * 10 + 512) \div 1024, unit |-> "0.1G"]
         ELSE [num |-> mb \div (1024 * 1024), unit |-> "T"]

\* The sum of a list of float64 values.
RECURSIVE RatSum(_)
RatSum(xs) ==
    IF xs = << >> THEN RatInt(0) ELSE RatAdd(Head(xs), RatSum(Tail(xs)))

\* sum / float64(len)
Mean(xs) == RatMul(RatSum(xs), Rat(1, Len(xs)))

\* The columns of a list of runs that the optimizer averages.
CPUEff(jobs) == [i \in 1..Len(jobs) |-> jobs[i].CPUEfficiency]

MemEff(jobs) == [i \in 1..Len(jobs) |-> jobs[i].MemoryEfficiency]

TimeEff(jobs) == [i \in 1..Len(jobs) |-> jobs[i].TimeEfficiency]

MemUsageMB(jobs) == [i \in 1..Len(jobs) |-> RatInt(jobs[i].MaxMemoryUsedMB)]

ActualRatio(jobs) == [i \in 1..Len(jobs) |-> jobs[i].ActualCPUMemRatio]

\* ActualTime.Hours()
RuntimeHours(jobs) == [i \in 1..Len(jobs) |-> Rat(jobs[i].ActualTime, 3600)]

\* The runs of a list with IsSuccessful().
Successful(history) == SelectSeq(history, IsSuccessful)

\* The memory suggestion made from a mean efficiency of 70% on.
MemoryOptimizationAtThreshold(job, ok) ==
    LET currentMemMB   == ParseMemoryString(job.Memory).mb
        suggestedMemMB == RatTrunc(RatMul(Mean(MemUsageMB(ok)), Rat(5, 4)))
    IN  IF RatLE(Mean(MemEff(ok)), RatInt(70))
           /\ suggestedMemMB < currentMemMB /\ suggestedMemMB > 0
        THEN << [ResourceType |-> "memory", CurrentValue |-> job.Memory,
                 SuggestedValue |-> FormatMemoryMB(suggestedMemMB)] >>
        ELSE << >>

\* generateResourceOptimizations: the memory suggestion.
MemoryOptimization(job, ok) ==
    LET currentMemMB   == ParseMemoryString(job.Memory).mb
        suggestedMemMB == RatTrunc(RatMul(Mean(MemUsageMB(ok)), Rat(5, 4)))
    IN  IF RatLT(Mean(MemEff(ok)), RatInt(70))
           /\ suggestedMemMB < currentMemMB /\ suggestedMemMB > 0
        THEN << [ResourceType |-> "memory", CurrentValue |-> job.Memory,
                 SuggestedValue |-> FormatMemoryMB(suggestedMemMB)] >>
        ELSE << >>

\* generateResourceOptimizations: the CPUs-per-task suggestion.
CPUOptimization(job, ok) ==
    LET totalReqCPUs  == job.Nodes * job.CPUsPerTask
        suggestedCPUs == RatTrunc(RatMul(RatMul(RatInt(totalReqCPUs), Mean(CPUEff(ok))),
                                         Rat(12, 1000)))
        newCPUsPerTask == suggestedCPUs \div job.Nodes
    IN  IF RatLT(Mean(CPUEff(ok)), RatInt(60))
           /\ suggestedCPUs < totalReqCPUs /\ suggestedCPUs > 0
           /\ newCPUsPerTask < job.CPUsPerTask /\ newCPUsPerTask > 0
        THEN << [ResourceType |-> "cpu", CurrentValue |-> job.CPUsPerTask,
                 SuggestedValue |-> newCPUsPerTask] >>
        ELSE << >>

\* generateResourceOptimizations: the time-limit suggestion, in whole hours.
TimeOptimization(job, ok) ==
    LET suggestedHours == RatTrunc(RatMul(Mean(RuntimeHours(ok)), Rat(13, 10)))
    IN  IF RatLT(Mean(TimeEff(ok)), RatInt(60)) /\ suggestedHours * 60 < job.TimeLimit
        THEN << [ResourceType |-> "time", CurrentValue |-> job.TimeLimit,
                 SuggestedValue |-> suggestedHours] >>
        ELSE << >>

generateResourceOptimizations(job, history) ==
    IF Len(history) < MinHistory \/ Successful(history) = << >> THEN << >>
    ELSE MemoryOptimization(job, Successful(history))
         \o CPUOptimization(job, Successful(history))
         \o TimeOptimization(job, Successful(history))

\* recommendInstanceFamily, for a sample of at least two successful runs.
recommendInstanceFamily(ok) ==
    LET cpu   == Mean(CPUEff(ok))
        mem   == Mean(MemEff(ok))
        ratio == Mean(ActualRatio(ok))
    IN  IF RatLT(RatInt(75), cpu) /\ RatLT(ratio, RatInt(4)) THEN "c5"
        ELSE IF RatLT(RatInt(75), mem) /\ RatLT(RatInt(6), ratio) THEN "r5"
        ELSE "m5"

generateInstanceRecommendations(job, history) ==
    IF Len(history) < MinHistory \/ Len(Successful(history)) < MinHistory THEN << >>
    ELSE << [InstanceFamily |-> recommendInstanceFamily(Successful(history))] >>

\* generateJobPattern: the workload type, from the means over all the runs.
WorkloadType(jobs) ==
    LET cpu == Mean(CPUEff(jobs))
        mem == Mean(MemEff(jobs))
    IN  IF RatLT(RatInt(75), cpu) /\ RatLT(mem, RatInt(60)) THEN "cpu-bound"
        ELSE IF RatLT(RatInt(75), mem) /\ RatLT(cpu, RatInt(60)) THEN "memory-bound"
        ELSE IF RatLT(RatInt(65), cpu) /\ RatLT(RatInt(65), mem) THEN "balanced"
        ELSE "over-allocated"

\* generateHistoryInsights: the count, and a pattern from three runs on.
generateHistoryInsights(jobs) ==
    [SimilarJobsFound |-> Len(jobs),
     JobPattern |-> IF Len(jobs) >= PatternRuns
                    THEN [WorkloadType |-> WorkloadType(jobs)] ELSE NoValue]

\* applyOptimizations, one suggestion: Memory takes the suggested string,
\* CPUsPerTask the integer Sscanf reads back from it, TimeLimit the duration
\* ParseDuration reads back from it.
ApplyOne(job, opt) ==
    CASE opt.ResourceType = "memory" -> [job EXCEPT !.Memory = opt.SuggestedValue]
      [] opt.ResourceType = "cpu"    -> [job EXCEPT !.CPUsPerTask = opt.SuggestedValue]
      [] opt.ResourceType = "time"   -> [job EXCEPT !.TimeLimit = opt.SuggestedValue * 60]
      [] OTHER -> job

\* applyOptimizations: the loop over the suggestions.
RECURSIVE ApplyEach(_, _)
ApplyEach(job, optimizations) ==
    IF optimizations = << >> THEN job
    ELSE ApplyEach(ApplyOne(job, Head(optimizations)), Tail(optimizations))

\* applyOptimizations writing through the pointer it was given.
applyOptimizationsInPlace(mem, original, optimizations) ==
    [mem |-> [mem EXCEPT ![original] = ApplyEach(mem[original], optimizations)],
     ptr |-> original]

\* applyOptimizations: `optimized := *original` copies the struct to a new
\* address (the TRES field of the copy is the same map reference), the loop
\* writes to the copy, and the address of the copy is returned.
applyOptimizations(mem, original, optimizations) ==
    [mem |-> [mem EXCEPT !["optimized"] = ApplyEach(mem[original], optimizations)],
     ptr |-> "optimized"]

\* analyzeDecisionImpact
analyzeDecisionImpact(original, optimized) ==
    [OriginalRecommendation  |-> original.Preferred,
     OptimizedRecommendation |-> optimized.Preferred,
     DecisionChanged         |-> original.Preferred # optimized.Preferred,
     CostDifferenceChange    |-> optimized.CostDifference - original.CostDifference,
     TimeDifferenceChange    |-> optimized.TimeSavings - original.TimeSavings]

\* getScriptHash: the empty string, whatever the path.
getScriptHash == ""

\* The EnhancedAnalysis that AnalyzeWithHistory builds before it looks at the
\* history: only Current is set.
BaselineOnly(current, job) ==
    [Current |-> [Recommendation |-> current, JobRequest |-> job],
     HistoryInsights |-> NoValue, ResourceOptimizations |-> << >>,
     InstanceRecommendations |-> << >>, Optimized |-> NoValue,
     DecisionImpact |-> NoValue, err |-> "nil"]

\* addHistoricalInsights for the list FindSimilarJobs returned: the memory
\* after the call and the analysis it has filled in.
addHistoricalInsights(mem, analysis, local, aws, job, w, similarJobs) ==
    IF Len(similarJobs) = 0
    THEN [mem |-> mem,
          enhanced |-> [analysis EXCEPT !.HistoryInsights =
                            [SimilarJobsFound |-> 0, JobPattern |-> NoValue]]]
    ELSE
    LET optimizations == generateResourceOptimizations(mem[job], similarJobs)
        withInsights  == [analysis EXCEPT
                            !.HistoryInsights = generateHistoryInsights(similarJobs),
                            !.ResourceOptimizations = optimizations,
                            !.InstanceRecommendations =
                                generateInstanceRecommendations(mem[job], similarJobs)]
        applied       == applyOptimizations(mem, job, optimizations)
        optimizedRecommendation == Compare(local, aws, applied.mem[applied.ptr], w)
    IN  IF Len(optimizations) > 0
        THEN [mem |-> applied.mem,
              enhanced |-> [withInsights EXCEPT
                              !.Optimized = [Recommendation |-> optimizedRecommendation,
                                             JobRequest |-> applied.ptr],
                              !.DecisionImpact =
                                  analyzeDecisionImpact(analysis.Current.Recommendation,
                                                        optimizedRecommendation)]]
        ELSE [mem |-> mem, enhanced |-> withInsights]

\* AnalyzeWithHistory handing the error of the lookup on to its caller.
AnalyzeWithHistoryStrict(mem, local, aws, job, w, similar) ==
    LET currentRecommendation == Compare(local, aws, mem[job], w)
    IN  IF currentRecommendation = Panic THEN [mem |-> mem, enhanced |-> Panic]
        ELSE IF ~similar.db
             THEN [mem |-> mem, enhanced |-> BaselineOnly(currentRecommendation, job)]
        ELSE IF similar.err
             THEN [mem |-> mem,
                   enhanced |-> [BaselineOnly(currentRecommendation, job)
                                    EXCEPT !.err = "failed to find similar jobs"]]
             ELSE addHistoricalInsights(mem, BaselineOnly(currentRecommendation, job),
                                        local, aws, job, w, similar.jobs)

\* AnalyzeWithHistory.  similar is what the history lookup does: db is FALSE
\* for a nil historyDB, err is TRUE when FindSimilarJobs returns an error, and
\* jobs is the list it returns otherwise.  The error of addHistoricalInsights
\* is printed and dropped.
AnalyzeWithHistory(mem, local, aws, job, w, similar) ==
    LET currentRecommendation == Compare(local, aws, mem[job], w)
    IN  IF currentRecommendation = Panic THEN [mem |-> mem, enhanced |-> Panic]
        ELSE IF ~similar.db \/ similar.err
             THEN [mem |-> mem, enhanced |-> BaselineOnly(currentRecommendation, job)]
             ELSE addHistoricalInsights(mem, BaselineOnly(currentRecommendation, job),
                                        local, aws, job, w, similar.jobs)

\* ------------------------------------------------------ execution plan
\* ExecutionPlanGenerator and ExecutionPlan.Validate.

\* The research domains DetectDomain may report for a script.
Domains == {"unknown", "machine_learning", "bioinformatics"}

\* JobRequest.TotalTasks
TotalTasks(job) == job.Nodes * job.NTasksPerNode

\* JobRequest.HasGPUs
HasGPUs(job) == GPUs(job) > 0

\* classifyWorkloadType
classifyWorkloadType(job) ==
    IF HasGPUs(job) THEN "gpu-bound"
    ELSE IF job.Nodes > 4 THEN "distributed" ELSE "single-node"

\* generateJobMetadata; domain is what DetectDomain reports.
generateJobMetadata(job, domain) ==
    [JobName |-> job.JobName, Account |-> job.Account,
     DetectedDomain |-> domain, WorkloadType |-> classifyWorkloadType(job)]

\* detectMPIFromJob
detectMPIFromJob(job) == job.Nodes > 1 /\ job.NTasksPerNode > 1

\* MPIOptimizer.GetDomainConfiguration: the profile of a domain, or nil.
GetDomainConfiguration(domain) ==
    CASE domain = "machine_learning" ->
            [MPICommunicationPattern |-> "all_reduce", RequiresGangScheduling |-> TRUE,
             RequiresEFA |-> TRUE, PreferredMPILibrary |-> "NCCL"]
      [] domain = "bioinformatics" ->
            [MPICommunicationPattern |-> "embarrassingly_parallel",
             RequiresGangScheduling |-> FALSE,
             RequiresEFA |-> FALSE, PreferredMPILibrary |-> "OpenMPI"]
      [] domain = "climate_modeling" ->
            [MPICommunicationPattern |-> "nearest_neighbor", RequiresGangScheduling |-> TRUE,
             RequiresEFA |-> TRUE, PreferredMPILibrary |-> "OpenMPI"]
      [] domain = "computational_physics" ->
            [MPICommunicationPattern |-> "tightly_coupled", RequiresGangScheduling |-> TRUE,
             RequiresEFA |-> TRUE, PreferredMPILibrary |-> "Intel MPI"]
      [] OTHER -> NilRef

\* The zero values of the plan's sections.
ZeroInstanceSpec ==
    [InstanceTypes |-> << >>, InstanceCount |-> 0, PurchasingOption |-> "",
     PlacementGroup |-> "",
     SpotInstanceConfig |-> [EnableSpot |-> FALSE, FallbackToOnDemand |-> FALSE]]

ZeroMPIConfig ==
    [IsMPIJob |-> FALSE, ProcessCount |-> 0, ProcessesPerNode |-> 0,
     CommunicationPattern |-> "", RequiresGangScheduling |-> FALSE,
     RequiresEFA |-> FALSE, MPILibrary |-> ""]

ZeroNetworkConfig ==
    [EnhancedNetworking |-> FALSE, EnableEFA |-> FALSE, EnableSRIOV |-> FALSE,
     NetworkLatencyClass |-> "", BandwidthRequirement |-> "", PlacementGroupType |-> ""]

ZeroCostConstraints == [MaxTotalCost |-> RatInt(0), PreferSpot |-> FALSE]

ZeroPerformanceTarget == [ScalingEfficiency |-> RatInt(0), PerformanceModel |-> ""]

\* generateInstanceSpecification choosing on-demand from 4 hours on.
generateInstanceSpecificationFromFourHours(analysis, job) ==
    LET purchasingOption == IF job.TimeLimit >= 4 * 60 THEN "on-demand" ELSE "spot"
    IN  [InstanceTypes |->
            IF Len(analysis.InstanceRecommendations) > 0
            THEN << <<analysis.InstanceRecommendations[1].InstanceFamily, ".xlarge">> >>
            ELSE << <<"m5", ".xlarge">> >>,
         InstanceCount |-> job.Nodes,
         PurchasingOption |-> purchasingOption,
         PlacementGroup |-> "cluster",
         SpotInstanceConfig |-> [EnableSpot |-> purchasingOption = "spot",
                                 FallbackToOnDemand |-> TRUE]]

\* generateInstanceSpecification: spot unless the time limit exceeds 4 hours.
generateInstanceSpecification(analysis, job) ==
    LET purchasingOption == IF job.TimeLimit > 4 * 60 THEN "on-demand" ELSE "spot"
    IN  [InstanceTypes |->
            IF Len(analysis.InstanceRecommendations) > 0
            THEN << <<analysis.InstanceRecommendations[1].InstanceFamily, ".xlarge">> >>
            ELSE << <<"m5", ".xlarge">> >>,
         InstanceCount |-> job.Nodes,
         PurchasingOption |-> purchasingOption,
         PlacementGroup |-> "cluster",
         SpotInstanceConfig |-> [EnableSpot |-> purchasingOption = "spot",
                                 FallbackToOnDemand |-> TRUE]]

\* generateMPIConfiguration
generateMPIConfiguration(job, detectedDomain) ==
    LET isMPIJob     == job.Nodes > 1 \/ detectMPIFromJob(job)
        domainConfig == GetDomainConfiguration(detectedDomain)
        config       == [ZeroMPIConfig EXCEPT !.IsMPIJob = isMPIJob,
                                              !.ProcessCount = TotalTasks(job),
                                              !.ProcessesPerNode = job.NTasksPerNode]
    IN  IF ~isMPIJob THEN config
        ELSE IF domainConfig # NilRef
        THEN [config EXCEPT !.CommunicationPattern = domainConfig.MPICommunicationPattern,
                            !.RequiresGangScheduling = domainConfig.RequiresGangScheduling,
                            !.RequiresEFA = domainConfig.RequiresEFA,
                            !.MPILibrary = domainConfig.PreferredMPILibrary]
        ELSE [config EXCEPT !.CommunicationPattern = "unknown",
                            !.RequiresGangScheduling = TRUE,
                            !.RequiresEFA = FALSE,
                            !.MPILibrary = "OpenMPI"]

\* generateNetworkConfiguration
generateNetworkConfiguration(detectedDomain, mpiConfig) ==
    LET config == [ZeroNetworkConfig EXCEPT !.EnhancedNetworking = TRUE]
        byEFA  == IF mpiConfig.RequiresEFA
                  THEN [config EXCEPT !.EnableEFA = TRUE,
                                      !.NetworkLatencyClass = "ultra-low",
                                      !.PlacementGroupType = "cluster"]
                  ELSE [config EXCEPT !.NetworkLatencyClass = "low",
                                      !.PlacementGroupType = "cluster"]
    IN  IF mpiConfig.IsMPIJob
        THEN CASE detectedDomain = "machine_learning" ->
                    [byEFA EXCEPT !.BandwidthRequirement = "very_high",
                                  !.NetworkLatencyClass = "ultra-low"]
               [] detectedDomain = "climate_modeling" ->
                    [byEFA EXCEPT !.BandwidthRequirement = "high",
                                  !.NetworkLatencyClass = "low"]
               [] detectedDomain = "bioinformatics" ->
                    [byEFA EXCEPT !.BandwidthRequirement = "low",
                                  !.NetworkLatencyClass = "medium",
                                  !.PlacementGroupType = "spread"]
               [] OTHER -> [byEFA EXCEPT !.BandwidthRequirement = "medium"]
        ELSE [config EXCEPT !.NetworkLatencyClass = "medium",
                            !.BandwidthRequirement = "low",
                            !.PlacementGroupType = "spread"]

\* generateCostConstraints: the cloud cost with a 20% buffer.
generateCostConstraints(aws, job) ==
    [MaxTotalCost |-> RatMul(RatInt(aws.EstimatedCost.TotalCost), Rat(12, 10)),
     PreferSpot |-> job.TimeLimit < 4 * 60]

\* generatePerformanceTarget
generatePerformanceTarget(analysis) ==
    LET insights == analysis.HistoryInsights
        type     == insights.JobPattern.WorkloadType
    IN  IF insights # NoValue /\ insights.JobPattern # NoValue
        THEN CASE type = "cpu-bound" ->
                    [ScalingEfficiency |-> Rat(85, 100), PerformanceModel |-> "strong_scaling"]
               [] type = "memory-bound" ->
                    [ScalingEfficiency |-> Rat(7, 10), PerformanceModel |-> "weak_scaling"]
               [] OTHER ->
                    [ScalingEfficiency |-> Rat(8, 10), PerformanceModel |-> "linear"]
        ELSE [ScalingEfficiency |-> Rat(8, 10), PerformanceModel |-> "linear"]

\* ExecutionPlan.Validate accepting every plan.
ValidateNothing(e) == "nil"

\* ExecutionPlan.Validate: nil, or the first error.
Validate(e) ==
    IF ~e.ShouldBurst THEN "nil"
    ELSE IF Len(e.InstanceSpecification.InstanceTypes) = 0 THEN "no instance type"
    ELSE IF e.InstanceSpecification.InstanceCount <= 0 THEN "instance count"
    ELSE IF e.MPIConfiguration.IsMPIJob /\ e.MPIConfiguration.ProcessCount <= 0
         THEN "process count"
    ELSE IF e.MPIConfiguration.IsMPIJob /\ e.MPIConfiguration.ProcessesPerNode <= 0
         THEN "processes per node"
    ELSE IF RatLT(e.CostConstraints.MaxTotalCost, RatInt(0)) THEN "max total cost"
    ELSE IF RatLT(e.PerformanceTarget.ScalingEfficiency, RatInt(0))
            \/ RatLT(RatInt(1), e.PerformanceTarget.ScalingEfficiency)
         THEN "scaling efficiency"
    ELSE "nil"

\* The plan GenerateExecutionPlan starts from: the flag, the metadata and
\* time.Now(), which is the wall clock reading and the monotonic clock
\* reading that every Time obtained from time.Now carries.
MinimalPlan(shouldBurst, job, domain) ==
    [ShouldBurst |-> shouldBurst,
     GeneratedAt |-> [wall |-> "2025-01-15T10:30:00Z", monotonic |-> TRUE],
     JobMetadata |-> generateJobMetadata(job, domain),
     RecommendationReasoning |-> << >>,
     InstanceSpecification |-> ZeroInstanceSpec,
     MPIConfiguration |-> ZeroMPIConfig,
     NetworkConfiguration |-> ZeroNetworkConfig,
     CostConstraints |-> ZeroCostConstraints,
     PerformanceTarget |-> ZeroPerformanceTarget,
     ConfidenceLevel |-> RatInt(0),
     OptimizationApplied |-> << >>]

\* populateAWSExecutionPlan
populateAWSExecutionPlan(p, analysis, aws, job) ==
    LET mpiConfig == generateMPIConfiguration(job, p.JobMetadata.DetectedDomain)
    IN  [p EXCEPT
            !.InstanceSpecification = generateInstanceSpecification(analysis, job),
            !.MPIConfiguration = mpiConfig,
            !.NetworkConfiguration =
                generateNetworkConfiguration(p.JobMetadata.DetectedDomain, mpiConfig),
            !.CostConstraints = generateCostConstraints(aws, job),
            !.PerformanceTarget = generatePerformanceTarget(analysis),
            !.RecommendationReasoning = analysis.Current.Recommendation.Reasoning,
            !.ConfidenceLevel = analysis.Current.Recommendation.Confidence,
            !.OptimizationApplied =
                [i \in 1..Len(analysis.ResourceOptimizations) |->
                    [ResourceType |-> analysis.ResourceOptimizations[i].ResourceType,
                     From |-> analysis.ResourceOptimizations[i].CurrentValue,
                     To |-> analysis.ResourceOptimizations[i].SuggestedValue]]]

\* Recommendation.IsAWSRecommended
IsAWSRecommended(r) == r.Preferred = "aws"

\* GenerateExecutionPlan filling in the cloud sections for a local plan too.
GenerateExecutionPlanPopulated(analysis, aws, job, domain) ==
    LET shouldBurst == IsAWSRecommended(analysis.Current.Recommendation)
        populated   == populateAWSExecutionPlan(MinimalPlan(shouldBurst, job, domain),
                                                analysis, aws, job)
    IN  IF Validate(populated) # "nil"
        THEN [plan |-> NilRef, err |-> Validate(populated)]
        ELSE [plan |-> populated, err |-> "nil"]

\* GenerateExecutionPlan: the plan and the error it returns.
GenerateExecutionPlan(analysis, aws, job, domain) ==
    LET shouldBurst == IsAWSRecommended(analysis.Current.Recommendation)
        minimal     == MinimalPlan(shouldBurst, job, domain)
        populated   == populateAWSExecutionPlan(minimal, analysis, aws, job)
    IN  IF ~shouldBurst
        THEN [plan |-> [minimal EXCEPT !.RecommendationReasoning =
                                          analysis.Current.Recommendation.Reasoning],
              err |-> "nil"]
        ELSE IF Validate(populated) # "nil"
             THEN [plan |-> NilRef, err |-> Validate(populated)]
             ELSE [plan |-> populated, err |-> "nil"]

\* ---------------------------------------------------------------- SpecStore
\* StoreJobExecution runs its two statements one after the other on the
\* database handle, outside any transaction; readers run between them.

\* The INSERT OR REPLACE INTO job_history statement of StoreJobExecution. (When
\* the statement fails the call returns the error and the store is untouched:
\* that call is no step of the store.)
InsertJobHistory(job) ==
    /\ storeCall = NoCall
    /\ stores < MaxStores
    /\ jobHistory' = InsertOrReplaceRow(jobHistory, job)
    /\ storeCall' = <<job>>
    /\ stores' = stores + 1
    /\ found' = NoResult
    /\ UNCHANGED <<jobPatterns, joinVars, cacheVars, adviseVars>>

\* updateJobPattern, called by StoreJobExecution after the row is written. Its
\* error is printed as a warning and StoreJobExecution returns nil.
UpdateJobPattern(readOK, writeOK) ==
    /\ storeCall # NoCall
    /\ jobPatterns' = updateJobPattern(jobPatterns, storeCall[1], readOK, writeOK)
    /\ storeCall' = NoCall
    /\ found' = NoResult
    /\ UNCHANGED <<jobHistory, stores, joinVars, cacheVars, adviseVars>>

\* A FindSimilarJobs call of a reader.
FindSimilar(scriptHash, resourcePattern) ==
    /\ found = NoResult
    /\ \E res \in FindSimilarJobs(jobHistory, scriptHash, resourcePattern) :
          found' = << [scriptHash |-> scriptHash, resourcePattern |-> resourcePattern,
                       exact |-> res.exact, similar |-> res.similar, jobs |-> res.jobs] >>
    /\ UNCHANGED <<jobHistory, jobPatterns, storeCall, stores, joinVars, cacheVars, adviseVars>>

InitStore ==
    /\ \E db \in {EmptyDB, FullDB} :
          /\ jobHistory = db.history
          /\ jobPatterns = db.patterns
    /\ storeCall = NoCall
    /\ stores = 0
    /\ found = NoResult
    /\ JoinIdle
    /\ CacheIdle
    /\ AdviseIdle

NextStore ==
    \/ \E job \in JobInputs : InsertJobHistory(job)
    \/ \E readOK \in BOOLEAN, writeOK \in BOOLEAN : UpdateJobPattern(readOK, writeOK)
    \/ \E h \in ScriptHashes, req \in JobRequests : FindSimilar(h, req)

SpecStore == InitStore /\ [][NextStore]_vars

\* ------------------------------------------------------ claims on the store

TheStore == [history |-> jobHistory, patterns |-> jobPatterns]

\* The elements of a list.
Range(seq) == { seq[k] : k \in 1..Len(seq) }

\* The request a stored run was submitted with.
RequestOfRow(r) ==
    [Nodes |-> 1, NTasksPerNode |-> 1, CPUsPerTask |-> r.req_cpus,
     Memory |-> [num |-> r.req_memory_mb, unit |-> "M"]]

\* C6: storing the same run a second time changes neither the run records nor
\* the patterns: for every store the program can reach and every run, the
\* store after two StoreJobExecution calls with that run equals the store after one.
C6_InsertionIdempotent ==
    storeCall = NoCall =>
        \A job \in JobInputs :
            StoreJobExecution(StoreJobExecution(TheStore, job), job)
                = StoreJobExecution(TheStore, job)

\* C7: the run record and the pattern of its script hash are written as one
\* atomic step: in every state of the store a run record with a script hash has
\* the pattern of that hash.
C7_RunAndPatternAtomic ==
    \A id \in DOMAIN jobHistory :
        jobHistory[id].script_hash # "" =>
            jobHistory[id].script_hash \in DOMAIN jobPatterns

\* C9: FindSimilarJobs returns only runs with exit_code = 0: at most 20 runs of
\* the script hash asked for, latest submission first, and, only after fewer
\* than 3 of those, at most 10 runs whose requested CPUs lie in
\* [0.5*TotalCPUs, 2.0*TotalCPUs] of the request.
C9_FindSimilarContract ==
    found # NoResult =>
        LET f == found[1] IN
        /\ \A r \in Range(f.jobs) : r.exit_code = 0
        /\ Len(f.exact) <= ExactLimit
        /\ \A r \in Range(f.exact) : r.script_hash = f.scriptHash
        /\ \A k \in 1..Len(f.exact) - 1 :
              f.exact[k].submission_time >= f.exact[k + 1].submission_time
        /\ Len(f.similar) <= SimilarLimit
        /\ \A r \in Range(f.similar) :
              /\ TotalCPUs(f.resourcePattern) <= 2 * r.req_cpus
              /\ r.req_cpus <= 2 * TotalCPUs(f.resourcePattern)
        /\ Len(f.exact) >= FewExactMatches => f.similar = << >>

\* The stored runs a FindSimilarJobs call was made for: the call names the
\* run's script hash and the run's own request.
AskedFor(f) ==
    { r \in Rows(jobHistory) :
        r.script_hash = f.scriptHash /\ RequestOfRow(r) = f.resourcePattern }

\* C10 as claimed: every stored run is in the list FindSimilarJobs returns for
\* its script hash and its own request.
C10_EveryRunFound ==
    found # NoResult =>
        \A r \in AskedFor(found[1]) : r \in Range(found[1].jobs)

\* The successful runs of r's script hash submitted no earlier than r, r aside.
NotEarlier(r) ==
    { q \in Rows(jobHistory) :
        /\ q # r
        /\ q.script_hash = r.script_hash
        /\ q.exit_code = 0
        /\ q.submission_time >= r.submission_time }

\* C10, amended: every stored run with exit_code = 0 that has fewer than 20
\* successful runs of the same script hash submitted at or after it is in the
\* list FindSimilarJobs returns for its script hash and its own request.
C10_SuccessfulRecentRunFound ==
    found # NoResult =>
        \A r \in AskedFor(found[1]) :
            (r.exit_code = 0 /\ Cardinality(NotEarlier(r)) < ExactLimit)
                => r \in Range(found[1].jobs)

\* C10 witness: a call for a stored successful run of a script with more than
\* 20 successful runs returned that run.
C10_Witness ==
    /\ found # NoResult
    /\ \E r \in AskedFor(found[1]) :
          /\ r.exit_code = 0
          /\ r \in Range(found[1].jobs)
          /\ Cardinality({ q \in Rows(jobHistory) :
                q.script_hash = r.script_hash /\ q.exit_code = 0 }) > ExactLimit

\* --------------------------------------------------------------------- Spec
\* performAnalysis: history collection, the two analysis goroutines, the
\* goroutine that closes the channels, and the collecting loop.  Time is in
\* whole seconds and starts when the goroutines are launched.  A step that
\* takes no time (a channel operation, a configuration lookup) is taken before
\* the clock advances; a scheduler or pricing call lasts any number of seconds.

\* A job as parseJobEfficiencyData hands it to collectJobHistory: successful,
\* and without a script path, so that collectJobHistory leaves its hash empty.
SacctJob(id) == JobEfficiencyData(id, "", 0, ShapeOf(id))

\* What GetUserJobEfficiency may return: up to MaxSacctRows jobs.
GetUserJobEfficiency == { [k \in 1..n |-> SacctJob(k)] : n \in 0..MaxSacctRows }

\* The scheduler calls of analyzeLocalPartition, each under defaultTimeout.
SlurmCalls == {"GetPartitionInfo", "GetQueueInfo"}

\* The collaborator calls of this invocation that have not returned.
InFlight ==
    (IF targetPc \in SlurmCalls THEN {"target"} ELSE {}) \cup
    (IF burstPc = "GetInstancePricing" THEN {"burst"} ELSE {})

\* A receive case of the select can proceed: a value is buffered, or the
\* channel is closed.
ErrorsReady == errors # << >> \/ errorsClosed

ResultsReady == results # << >> \/ resultsClosed

\* The timer made by time.After for the current select has fired.
TimerFired == now - selectStart >= AnalysisTimeout

\* defer wg.Done() followed by the send of the goroutine's outcome.
Done(g, ok, type) ==
    /\ wg' = wg - 1
    /\ IF ok
       THEN /\ results' = Append(results, type)
            /\ UNCHANGED <<errors, failed>>
       ELSE /\ errors' = Append(errors, g)
            /\ failed' = failed \cup {g}
            /\ UNCHANGED results

\* collectJobHistory, called before the goroutines are launched.
CollectJobHistory(ok, jobs) ==
    /\ mainPc = "history"
    /\ historyAnalyzer /\ trackHistory
    /\ IF ok
       THEN /\ jobHistory' = StoreAll(TheStore, jobs).history
            /\ jobPatterns' = StoreAll(TheStore, jobs).patterns
            /\ dbWrites' = dbWrites + Len(jobs)
       ELSE UNCHANGED <<jobHistory, jobPatterns, dbWrites>>
    /\ mainPc' = "launch"
    /\ UNCHANGED <<storeCall, stores, found, cacheVars, adviseVars, outcome, trackHistory,
                   historyAnalyzer, loopI, targetAnalysis, burstAnalysis,
                   clockVars, goVars>>

\* No history analyzer, or history tracking is off.
SkipJobHistory ==
    /\ mainPc = "history"
    /\ ~(historyAnalyzer /\ trackHistory)
    /\ mainPc' = "launch"
    /\ UNCHANGED <<storeVars, cacheVars, adviseVars, outcome, trackHistory, historyAnalyzer, dbWrites,
                   loopI, targetAnalysis, burstAnalysis, clockVars, goVars>>

\* The three go statements, and entry to the collecting loop.
Launch ==
    /\ mainPc = "launch"
    /\ wg' = 2
    /\ targetPc' = "GetPartitionInfo"
    /\ burstPc' = "GetAWSPartitionConfig"
    /\ closerPc' = "Wait"
    /\ callStart' = [callStart EXCEPT !["target"] = now]
    /\ mainPc' = "select"
    /\ loopI' = 0
    /\ joinStart' = now
    /\ selectStart' = now
    /\ UNCHANGED <<storeVars, cacheVars, adviseVars, outcome, trackHistory, historyAnalyzer, dbWrites,
                   targetAnalysis, burstAnalysis, now, failed, results, errors,
                   resultsClosed, errorsClosed, ctxDone>>

\* A scheduler call succeeds only before its own timeout and while the
\* context is live.
SlurmCallOK == now - callStart["target"] < defaultTimeout /\ ~ctxDone

\* analyzeLocalPartition: GetPartitionInfo returns.
PartitionInfoReturns(ok) ==
    /\ targetPc = "GetPartitionInfo"
    /\ ok => SlurmCallOK
    /\ IF ok
       THEN /\ targetPc' = "GetQueueInfo"
            /\ callStart' = [callStart EXCEPT !["target"] = now]
            /\ UNCHANGED <<wg, results, errors, failed>>
       ELSE /\ targetPc' = "done"
            /\ Done("target", FALSE, "local")
            /\ UNCHANGED callStart
    /\ UNCHANGED <<storeVars, cacheVars, adviseVars, mainVars, clockVars, burstPc, resultsClosed,
                   errorsClosed, closerPc, ctxDone>>

\* analyzeLocalPartition: GetQueueInfo returns, and the goroutine ends.
QueueInfoReturns(ok) ==
    /\ targetPc = "GetQueueInfo"
    /\ ok => SlurmCallOK
    /\ targetPc' = "done"
    /\ Done("target", ok, "local")
    /\ UNCHANGED <<storeVars, cacheVars, adviseVars, mainVars, clockVars, burstPc, callStart,
                   resultsClosed, errorsClosed, closerPc, ctxDone>>

\* analyzeBurstPartition: the partition's AWS configuration is looked up.
AWSPartitionConfig(ok) ==
    /\ burstPc = "GetAWSPartitionConfig"
    /\ IF ok
       THEN /\ burstPc' = "GetInstancePricing"
            /\ callStart' = [callStart EXCEPT !["burst"] = now]
            /\ UNCHANGED <<wg, results, errors, failed>>
       ELSE /\ burstPc' = "done"
            /\ Done("burst", FALSE, "aws")
            /\ UNCHANGED callStart
    /\ UNCHANGED <<storeVars, cacheVars, adviseVars, mainVars, clockVars, targetPc, resultsClosed,
                   errorsClosed, closerPc, ctxDone>>

\* analyzeBurstPartition: GetInstancePricing returns, and the goroutine ends.
InstancePricingReturns(ok) ==
    /\ burstPc = "GetInstancePricing"
    /\ ok => ~ctxDone
    /\ burstPc' = "done"
    /\ Done("burst", ok, "aws")
    /\ UNCHANGED <<storeVars, cacheVars, adviseVars, mainVars, clockVars, targetPc, callStart,
                   resultsClosed, errorsClosed, closerPc, ctxDone>>

\* The closing goroutine: wg.Wait() returns, close(results).
CloseResults ==
    /\ closerPc = "Wait"
    /\ wg = 0
    /\ resultsClosed' = TRUE
    /\ closerPc' = "closeErrors"
    /\ UNCHANGED <<storeVars, cacheVars, adviseVars, mainVars, clockVars, targetPc, burstPc,
                   callStart, failed, results, errors, errorsClosed, wg,
                   ctxDone>>

\* The closing goroutine: close(errors).
CloseErrors ==
    /\ closerPc = "closeErrors"
    /\ errorsClosed' = TRUE
    /\ closerPc' = "done"
    /\ UNCHANGED <<storeVars, cacheVars, adviseVars, mainVars, clockVars, targetPc, burstPc,
                   callStart, failed, results, errors, resultsClosed, wg,
                   ctxDone>>

\* The end of one iteration of the collecting loop: i++, and either the next
\* select with a new time.After timer, or the code after the loop.
NextIteration ==
    /\ loopI' = loopI + 1
    /\ mainPc' = IF loopI + 1 < LoopCount THEN "select" ELSE "decide"
    /\ selectStart' = now

\* case err := <-errors.  A closed, drained channel delivers nil.
RecvError ==
    /\ mainPc = "select"
    /\ ErrorsReady
    /\ IF errors # << >>
       THEN /\ errors' = Tail(errors)
            /\ outcome' = "error"
            /\ mainPc' = "returned"
            /\ UNCHANGED <<loopI, selectStart>>
       ELSE /\ NextIteration
            /\ UNCHANGED <<errors, outcome>>
    /\ UNCHANGED <<storeVars, cacheVars, adviseVars, trackHistory, historyAnalyzer, dbWrites,
                   targetAnalysis, burstAnalysis, now, joinStart, targetPc,
                   burstPc, callStart, failed, results, resultsClosed,
                   errorsClosed, wg, closerPc, ctxDone>>

\* case result := <-results.  A closed, drained channel delivers nil, and
\* result.Type dereferences it.
RecvResult ==
    /\ mainPc = "select"
    /\ ResultsReady
    /\ IF results # << >>
       THEN /\ results' = Tail(results)
            /\ IF Head(results) = "local"
               THEN targetAnalysis' = Head(results) /\ UNCHANGED burstAnalysis
               ELSE burstAnalysis' = Head(results) /\ UNCHANGED targetAnalysis
            /\ NextIteration
            /\ UNCHANGED outcome
       ELSE /\ outcome' = "panic"
            /\ mainPc' = "returned"
            /\ UNCHANGED <<results, targetAnalysis, burstAnalysis, loopI,
                           selectStart>>
    /\ UNCHANGED <<storeVars, cacheVars, adviseVars, trackHistory, historyAnalyzer, dbWrites, now,
                   joinStart, targetPc, burstPc, callStart, failed, errors,
                   resultsClosed, errorsClosed, wg, closerPc, ctxDone>>

\* case <-time.After(30 * time.Second).
Timeout ==
    /\ mainPc = "select"
    /\ TimerFired
    /\ outcome' = "timeout"
    /\ mainPc' = "returned"
    /\ UNCHANGED <<storeVars, cacheVars, adviseVars, trackHistory, historyAnalyzer, dbWrites, loopI,
                   targetAnalysis, burstAnalysis, clockVars, goVars>>

\* AnalyzeWithHistory or Compare: both read fields of local and of aws.
Decide ==
    /\ mainPc = "decide"
    /\ outcome' = IF targetAnalysis = "nil" \/ burstAnalysis = "nil"
                  THEN "panic" ELSE "ok"
    /\ mainPc' = "returned"
    /\ UNCHANGED <<storeVars, cacheVars, adviseVars, trackHistory, historyAnalyzer, dbWrites, loopI,
                   targetAnalysis, burstAnalysis, clockVars, goVars>>

\* One second passes while calls are in flight and no step is due.
Tick ==
    /\ now < MaxTime
    /\ InFlight # {}
    /\ mainPc \in {"select", "returned"}
    /\ mainPc = "select" => ~(ErrorsReady \/ ResultsReady \/ TimerFired)
    /\ burstPc # "GetAWSPartitionConfig"
    /\ ~(closerPc = "Wait" /\ wg = 0)
    /\ closerPc # "closeErrors"
    /\ targetPc \in SlurmCalls => now - callStart["target"] < defaultTimeout
    /\ now' = now + 1
    /\ UNCHANGED <<storeVars, cacheVars, adviseVars, mainVars, joinStart, selectStart, goVars>>

Init ==
    /\ jobHistory = EmptyDB.history
    /\ jobPatterns = EmptyDB.patterns
    /\ storeCall = NoCall
    /\ stores = 0
    /\ found = NoResult
    /\ mainPc = "history" /\ outcome = "none"
    /\ trackHistory \in BOOLEAN /\ historyAnalyzer \in BOOLEAN
    /\ dbWrites = 0 /\ loopI = 0
    /\ targetAnalysis = "nil" /\ burstAnalysis = "nil"
    /\ now = 0 /\ joinStart = 0 /\ selectStart = 0
    /\ targetPc = "none" /\ burstPc = "none"
    /\ callStart = [g \in {"target", "burst"} |-> 0]
    /\ failed = {}
    /\ results = << >> /\ errors = << >>
    /\ resultsClosed = FALSE /\ errorsClosed = FALSE
    /\ wg = 0 /\ closerPc = "none"
    /\ ctxDone = FALSE
    /\ CacheIdle
    /\ AdviseIdle

Next ==
    \/ \E ok \in BOOLEAN, jobs \in GetUserJobEfficiency : CollectJobHistory(ok, jobs)
    \/ SkipJobHistory
    \/ Launch
    \/ \E ok \in BOOLEAN : PartitionInfoReturns(ok)
    \/ \E ok \in BOOLEAN : QueueInfoReturns(ok)
    \/ \E ok \in BOOLEAN : AWSPartitionConfig(ok)
    \/ \E ok \in BOOLEAN : InstancePricingReturns(ok)
    \/ CloseResults
    \/ CloseErrors
    \/ RecvError
    \/ RecvResult
    \/ Timeout
    \/ Decide
    \/ Tick

Spec == Init /\ [][Next]_vars

\* ------------------------------------------------------ claims on the join

\* C1: measured from the start of the join, the collecting loop is never still
\* waiting more than 30 seconds later: one deadline covers the whole join.
C1_SingleJoinDeadline ==
    mainPc = "select" => now - joinStart <= AnalysisTimeout

\* C2: once an analysis has failed, performAnalysis ends by returning an error
\* (the analysis error or the timeout error), in every interleaving.
C2_FailureFailsDecision ==
    (failed # {} /\ mainPc = "returned") => outcome \in {"error", "timeout"}

\* C3: when the collecting loop ends without error or timeout, both analyses
\* have been received before the decision engine is called.
C3_BothAnalysesBeforeDecide ==
    mainPc = "decide" => targetAnalysis # "nil" /\ burstAnalysis # "nil"

\* C4: when the join deadline expires, the context of every call still in
\* flight is cancelled, and no analysis is used for a decision afterwards.
C4_CancellationReachesCalls ==
    outcome = "timeout" => (InFlight # {} => ctxDone) /\ mainPc = "returned"

\* C5: an invocation that ends with the analysis deadline error has executed
\* no statement on the history store.
C5_NoWriteWhenDeadline ==
    outcome = "timeout" => dbWrites = 0

\* ---------------------------------------------------------------- SpecCache
\* PricingClient.GetInstancePricing called by concurrent goroutines.  The
\* sections under cacheMutex are single steps; fetchInstancePricing runs with
\* no lock held and lasts any number of minutes.

\* cached exists and time.Since(cached.lastUpdated) < c.cacheTTL.
CacheFresh(key) ==
    /\ cache[key] # << >>
    /\ cacheNow - cache[key][1] < cacheTTL

\* The callers whose fetchInstancePricing for the key has not returned.
Fetching(key) == { c \in Callers : callerPc[c] = "fetch" /\ callerKey[c] = key }

\* GetInstancePricing up to the RUnlock: a fresh entry is returned, anything
\* else sends the caller to fetchInstancePricing.
CheckCache(c, key) ==
    /\ callerPc[c] = "idle"
    /\ callerCalls[c] < MaxCalls
    /\ callerKey' = [callerKey EXCEPT ![c] = key]
    /\ IF CacheFresh(key)
       THEN /\ callerCalls' = [callerCalls EXCEPT ![c] = @ + 1]
            /\ UNCHANGED callerPc
       ELSE /\ callerPc' = [callerPc EXCEPT ![c] = "fetch"]
            /\ UNCHANGED callerCalls
    /\ UNCHANGED <<cache, cacheNow, storeVars, joinVars, adviseVars>>

\* fetchInstancePricing returns: an error ends the call, a price goes on to
\* the cache update.
FetchReturns(c, ok) ==
    /\ callerPc[c] = "fetch"
    /\ IF ok
       THEN /\ callerPc' = [callerPc EXCEPT ![c] = "update"]
            /\ UNCHANGED callerCalls
       ELSE /\ callerPc' = [callerPc EXCEPT ![c] = "idle"]
            /\ callerCalls' = [callerCalls EXCEPT ![c] = @ + 1]
    /\ UNCHANGED <<cache, callerKey, cacheNow, storeVars, joinVars, adviseVars>>

\* The section under cacheMutex.Lock(): the entry is replaced, and the call
\* returns.
UpdateCache(c) ==
    /\ callerPc[c] = "update"
    /\ cache' = [cache EXCEPT ![callerKey[c]] = <<cacheNow>>]
    /\ callerPc' = [callerPc EXCEPT ![c] = "idle"]
    /\ callerCalls' = [callerCalls EXCEPT ![c] = @ + 1]
    /\ UNCHANGED <<callerKey, cacheNow, storeVars, joinVars, adviseVars>>

\* ClearCache: c.cache = make(map[string]*cachedPricing).
ClearCache ==
    /\ \E k \in PricingKeys : cache[k] # << >>
    /\ cache' = [k \in PricingKeys |-> << >>]
    /\ UNCHANGED <<callerPc, callerKey, callerCalls, cacheNow, storeVars,
                   joinVars, adviseVars>>

\* One minute passes.
CacheTick ==
    /\ cacheNow < MaxCacheTime
    /\ cacheNow' = cacheNow + 1
    /\ UNCHANGED <<cache, callerPc, callerKey, callerCalls, storeVars,
                   joinVars, adviseVars>>

InitCache ==
    /\ jobHistory = EmptyDB.history
    /\ jobPatterns = EmptyDB.patterns
    /\ storeCall = NoCall
    /\ stores = 0
    /\ found = NoResult
    /\ JoinIdle
    /\ CacheIdle
    /\ AdviseIdle

NextCache ==
    \/ \E c \in Callers, key \in PricingKeys : CheckCache(c, key)
    \/ \E c \in Callers, ok \in BOOLEAN : FetchReturns(c, ok)
    \/ \E c \in Callers : UpdateCache(c)
    \/ ClearCache
    \/ CacheTick

SpecCache == InitCache /\ [][NextCache]_vars

\* ------------------------------------------------- claims on the pricing cache

\* C8: for each key at most one upstream fetch is under way at any time:
\* concurrent requests for the same uncached or expired key share one fetch.
C8_OneFetchPerKey ==
    \A k \in PricingKeys : Cardinality(Fetching(k)) <= 1

\* --------------------------------------------------------------- SpecAdvise
\* The advisor pipeline on one request: DecisionEngine.Compare, then
\* HistoryAwareAnalyzer.AnalyzeWithHistory over the history store, then
\* ExecutionPlanGenerator.GenerateExecutionPlan.

\* DecisionEngine.weights: the defaults, a configuration that weighs only the
\* cost, and one that weighs the availability as well.
Weights ==
    { [TimeWeight |-> Rat(7, 10), CostWeight |-> Rat(3, 10), ReliabilityWeight |-> RatInt(0)],
      [TimeWeight |-> RatInt(0), CostWeight |-> RatInt(1), ReliabilityWeight |-> RatInt(0)],
      [TimeWeight |-> Rat(5, 10), CostWeight |-> Rat(3, 10), ReliabilityWeight |-> Rat(2, 10)] }

\* The analyses of the local partition: a loaded one (4 of 16 nodes idle, 8
\* jobs pending, 2h45m of wait, $52), an idle one ($4.50), and one without a
\* cost breakdown.
LocalAnalyses ==
    { [Type |-> "local", QueueDepth |-> 8, EstimatedWaitTime |-> 165, StartupTime |-> 0,
       AvailableNodes |-> 4, TotalNodes |-> 16, InstanceType |-> "",
       EstimatedCost |-> [TotalCost |-> 5200]],
      [Type |-> "local", QueueDepth |-> 0, EstimatedWaitTime |-> 0, StartupTime |-> 0,
       AvailableNodes |-> 16, TotalNodes |-> 16, InstanceType |-> "",
       EstimatedCost |-> [TotalCost |-> 450]],
      [Type |-> "local", QueueDepth |-> 0, EstimatedWaitTime |-> 0, StartupTime |-> 0,
       AvailableNodes |-> 0, TotalNodes |-> 16, InstanceType |-> "",
       EstimatedCost |-> NilRef] }

\* The analyses of the burst partition: p3.8xlarge at $44.13, an instance at
\* $4.50 whose type is not configured, and one without a cost breakdown.
AWSAnalyses ==
    { [Type |-> "aws", QueueDepth |-> 0, EstimatedWaitTime |-> 0, StartupTime |-> 3,
       AvailableNodes |-> 1000, TotalNodes |-> 1000, InstanceType |-> "p3.8xlarge",
       EstimatedCost |-> [TotalCost |-> 4413]],
      [Type |-> "aws", QueueDepth |-> 0, EstimatedWaitTime |-> 0, StartupTime |-> 3,
       AvailableNodes |-> 1000, TotalNodes |-> 1000, InstanceType |-> "",
       EstimatedCost |-> [TotalCost |-> 450]],
      [Type |-> "aws", QueueDepth |-> 0, EstimatedWaitTime |-> 0, StartupTime |-> 3,
       AvailableNodes |-> 1000, TotalNodes |-> 1000, InstanceType |-> "p3.8xlarge",
       EstimatedCost |-> NilRef] }

\* The requests: 32 cores and 256 GB for 8 hours with GPUs, an MPI job on two
\* nodes, a request for no node, and one for no task per node.
Requests ==
    { [JobName |-> "train", Account |-> "research", Nodes |-> 1, NTasksPerNode |-> 1,
       CPUsPerTask |-> 32, Memory |-> [num |-> 256, unit |-> "G"],
       TimeLimit |-> 480, TRES |-> "tres1"],
      [JobName |-> "mpi", Account |-> "research", Nodes |-> 2, NTasksPerNode |-> 4,
       CPUsPerTask |-> 8, Memory |-> [num |-> 256, unit |-> "G"],
       TimeLimit |-> 120, TRES |-> "nil"],
      [JobName |-> "none", Account |-> "research", Nodes |-> 0, NTasksPerNode |-> 1,
       CPUsPerTask |-> 32, Memory |-> [num |-> 256, unit |-> "G"],
       TimeLimit |-> 480, TRES |-> "nil"],
      [JobName |-> "notask", Account |-> "research", Nodes |-> 2, NTasksPerNode |-> 0,
       CPUsPerTask |-> 16, Memory |-> [num |-> 256, unit |-> "G"],
       TimeLimit |-> 480, TRES |-> "nil"] }

\* What earlier runs of 32 cores and 256 GB looked like: over-allocated (45%
\* CPU, 68% memory, 174 GB used, 4 hours of 8), efficient, and exactly at the
\* optimizer's thresholds while using little.
Profiles ==
    << [SubmissionTime |-> 0, RequestedCPUs |-> 32, RequestedMemoryMB |-> 262144,
        CPUEfficiency |-> 45, MemoryEfficiency |-> 68, TimeEfficiency |-> 50,
        MaxMemoryUsedMB |-> 178176, ActualCPUMemRatio |-> 12,
        ActualTime |-> 14400, ExecutionPlatform |-> "local"],
       [SubmissionTime |-> 0, RequestedCPUs |-> 32, RequestedMemoryMB |-> 262144,
        CPUEfficiency |-> 90, MemoryEfficiency |-> 85, TimeEfficiency |-> 80,
        MaxMemoryUsedMB |-> 222822, ActualCPUMemRatio |-> 7,
        ActualTime |-> 23040, ExecutionPlatform |-> "aws"],
       [SubmissionTime |-> 0, RequestedCPUs |-> 32, RequestedMemoryMB |-> 262144,
        CPUEfficiency |-> 60, MemoryEfficiency |-> 70, TimeEfficiency |-> 60,
        MaxMemoryUsedMB |-> 102400, ActualCPUMemRatio |-> 5,
        ActualTime |-> 7200, ExecutionPlatform |-> "local"] >>

\* k earlier runs of one profile, submitted one after the other under the
\* script hash `hash`; the first of them ended with exit code `exit`.
EarlierRunsOf(profile, k, hash, exit) ==
    [i \in 1..k |->
        JobEfficiencyData(i, hash, IF i = 1 THEN exit ELSE 0,
                          [profile EXCEPT !.SubmissionTime = i])]

\* The histories the store may hold when the advisor runs.
Histories ==
    { EarlierRunsOf(Profiles[p], k, hash, exit) :
        p \in 1..Len(Profiles), k \in 0..MaxRuns, hash \in ScriptHashes, exit \in ExitCodes }

\* What the history lookup of AnalyzeWithHistory may do on a store: find no
\* database, fail, or return one of the lists FindSimilarJobs may return.
Lookups(history, job) ==
    { [db |-> FALSE, err |-> FALSE, jobs |-> << >>],
      [db |-> TRUE, err |-> TRUE, jobs |-> << >>] } \cup
    { [db |-> TRUE, err |-> FALSE,
       jobs |-> [i \in 1..Len(f.jobs) |-> scanJobRows(f.jobs[i])]] :
        f \in FindSimilarJobs(history, getScriptHash, job) }

\* DecisionEngine.Compare on the request.
CompareCall ==
    /\ advPc = "start"
    /\ recommendation' = Compare(localPartition, awsPartition, requests["original"], weights)
    /\ advPc' = IF recommendation' = Panic THEN "crashed" ELSE "compared"
    /\ UNCHANGED <<weights, localPartition, awsPartition, requests, tres, lookup,
                   enhanced, plan>>
    /\ UNCHANGED <<storeVars, joinVars, cacheVars, burstVars>>

\* HistoryAwareAnalyzer.AnalyzeWithHistory on the request.
AnalyzeWithHistoryCall(similar) ==
    /\ advPc \in {"start", "compared"}
    /\ LET result == AnalyzeWithHistory(requests, localPartition, awsPartition,
                                        "original", weights, similar)
       IN  /\ requests' = result.mem
           /\ enhanced' = result.enhanced
           /\ advPc' = IF result.enhanced = Panic THEN "crashed" ELSE "analyzed"
    /\ lookup' = similar
    /\ UNCHANGED <<weights, localPartition, awsPartition, tres, recommendation, plan>>
    /\ UNCHANGED <<storeVars, joinVars, cacheVars, burstVars>>

\* ExecutionPlanGenerator.GenerateExecutionPlan on the analysis and the request.
GenerateExecutionPlanCall(domain) ==
    /\ advPc = "analyzed"
    /\ plan' = GenerateExecutionPlan(enhanced, awsPartition, requests["original"], domain)
    /\ advPc' = "planned"
    /\ UNCHANGED <<weights, localPartition, awsPartition, requests, tres, lookup,
                   recommendation, enhanced>>
    /\ UNCHANGED <<storeVars, joinVars, cacheVars, burstVars>>

InitAdvise ==
    /\ \E runs \in Histories :
          /\ jobHistory = StoreAll(EmptyDB, runs).history
          /\ jobPatterns = StoreAll(EmptyDB, runs).patterns
    /\ storeCall = NoCall
    /\ stores = 0
    /\ found = NoResult
    /\ JoinIdle
    /\ CacheIdle
    /\ advPc = "start"
    /\ weights \in Weights
    /\ localPartition \in LocalAnalyses
    /\ awsPartition \in AWSAnalyses
    /\ \E job \in Requests : requests = [original |-> job, optimized |-> NoValue]
    /\ tres = [tres1 |-> 4]
    /\ lookup = NoValue
    /\ recommendation = NoValue
    /\ enhanced = NoValue
    /\ plan = NoValue
    /\ BurstIdle

NextAdvise ==
    \/ CompareCall
    \/ \E similar \in Lookups(jobHistory, requests["original"]) : AnalyzeWithHistoryCall(similar)
    \/ \E domain \in Domains : GenerateExecutionPlanCall(domain)

SpecAdvise == InitAdvise /\ [][NextAdvise]_vars

\* ------------------------------------------------ claims on the decision engine

\* Compare has returned a Recommendation.
Recommended == recommendation # NoValue /\ recommendation # Panic

\* C11: Compare recommends the cloud exactly when the cloud's weighted score
\* is strictly higher than the local one; when the two scores are equal (and
\* when the local one is higher) it recommends local.
C11_HigherScoreWinsTieLocal ==
    Recommended =>
        LET localScore == calculateScore(localPartition, weights)
            awsScore   == calculateScore(awsPartition, weights)
        IN  /\ RatLT(localScore, awsScore) => recommendation.Preferred = "aws"
            /\ RatLT(awsScore, localScore) => recommendation.Preferred = "local"
            /\ localScore = awsScore => recommendation.Preferred = "local"

\* Compare has returned for two venues of equal score, and recommends local.
C11_Witness ==
    /\ Recommended
    /\ calculateScore(localPartition, weights) = calculateScore(awsPartition, weights)
    /\ recommendation.Preferred = "local"

\* C12: every Recommendation that Compare returns has a confidence equal to
\* |score_cloud - score_local| / 100 brought into [0.1, 1.0], a preferred
\* venue that is local or cloud, and at least one sentence of reasoning.
C12_RecommendationWellFormed ==
    Recommended =>
        LET raw == RatMul(RatAbs(RatSub(calculateScore(awsPartition, weights),
                                        calculateScore(localPartition, weights))),
                          Rat(1, 100))
        IN  /\ recommendation.Confidence =
                    (IF RatLT(raw, Rat(1, 10)) THEN Rat(1, 10)
                     ELSE IF RatLT(RatInt(1), raw) THEN RatInt(1) ELSE raw)
            /\ RatLE(Rat(1, 10), recommendation.Confidence)
            /\ RatLE(recommendation.Confidence, RatInt(1))
            /\ recommendation.Preferred \in {"local", "aws"}
            /\ Len(recommendation.Reasoning) > 0

\* Compare has returned for scores less than 10 points apart and with no
\* difference worth a sentence: the confidence is 0.1 and the reasoning is
\* the one default sentence.
C12_Witness ==
    /\ Recommended
    /\ recommendation.Confidence = Rat(1, 10)
    /\ recommendation.Reasoning = <<"overall-optimization">>

\* C13: Compare returns a Recommendation for every input, a partition
\* analysis without a cost breakdown included: it never ends in a crash.
C13_CompareNeverFails == recommendation # Panic

\* ----------------------------------------------------- claims on the optimizer

\* AnalyzeWithHistory has returned an EnhancedAnalysis.
Analyzed == enhanced # NoValue /\ enhanced # Panic

\* The history lookup of the last AnalyzeWithHistory call returned a list.
LookupOK == lookup # NoValue /\ lookup.db /\ ~lookup.err

\* C14: AnalyzeWithHistory returns no error, and the baseline recommendation
\* it returns is the one Compare alone produces for the same partition
\* analyses, request and weights (it ends as Compare alone ends); when there
\* is no store or the lookup fails, the analysis carries the baseline only.
C14_BaselineAlwaysReturned ==
    LET alone == Compare(localPartition, awsPartition, requests["original"], weights)
    IN  /\ enhanced = Panic => alone = Panic
        /\ Analyzed =>
              /\ enhanced.err = "nil"
              /\ enhanced.Current.Recommendation = alone
              /\ enhanced.Current.JobRequest = "original"
              /\ ~LookupOK =>
                    /\ enhanced.HistoryInsights = NoValue
                    /\ enhanced.ResourceOptimizations = << >>
                    /\ enhanced.InstanceRecommendations = << >>
                    /\ enhanced.Optimized = NoValue
                    /\ enhanced.DecisionImpact = NoValue

\* AnalyzeWithHistory has returned after a failed lookup in the store.
C14_Witness ==
    /\ Analyzed
    /\ lookup.db /\ lookup.err
    /\ enhanced.Current.Recommendation.Preferred = "aws"

\* C15: no step of the pipeline changes the caller's JobRequest or the TRES
\* map it points to, and the request of an optimized analysis is a copy at
\* another address than the caller's.
C15_OriginalRequestUntouched ==
    [][/\ requests'["original"] = requests["original"]
       /\ tres' = tres
       /\ (enhanced' # NoValue /\ enhanced' # Panic /\ enhanced'.Optimized # NoValue)
             => enhanced'.Optimized.JobRequest # enhanced'.Current.JobRequest]_vars

\* AnalyzeWithHistory has applied optimizations: the copy differs from the
\* caller's request in memory, CPUs per task and time limit.
C15_Witness ==
    /\ Analyzed
    /\ enhanced.Optimized # NoValue
    /\ requests["optimized"].Memory # requests["original"].Memory
    /\ requests["optimized"].CPUsPerTask # requests["original"].CPUsPerTask
    /\ requests["optimized"].TimeLimit # requests["original"].TimeLimit
    /\ requests["optimized"].TRES = requests["original"].TRES

\* The job ids of the successful runs in a list.
SuccessfulRuns(jobs) == { jobs[i].JobID : i \in { k \in 1..Len(jobs) : IsSuccessful(jobs[k]) } }

\* C16: when the lookup finds fewer than 2 successful runs, the analysis is
\* the baseline: similar_jobs_found is the number of runs found, and there
\* is no resource optimization, no instance recommendation, no optimized
\* decision and no DecisionImpact.
C16_TooFewRunsBaseline ==
    (Analyzed /\ LookupOK /\ Cardinality(SuccessfulRuns(lookup.jobs)) < MinHistory) =>
        /\ enhanced.HistoryInsights.SimilarJobsFound = Cardinality(SuccessfulRuns(lookup.jobs))
        /\ enhanced.ResourceOptimizations = << >>
        /\ enhanced.InstanceRecommendations = << >>
        /\ enhanced.Optimized = NoValue
        /\ enhanced.DecisionImpact = NoValue

\* C17: when the successful runs found have a mean memory efficiency of at
\* least 70% and mean CPU and time efficiencies of at least 60%, there is no
\* resource optimization, no optimized decision and no DecisionImpact, and the
\* decision returned is the baseline.
C17_EfficientRunsNoOptimization ==
    (/\ Analyzed /\ LookupOK
     /\ Successful(lookup.jobs) # << >>
     /\ RatLE(RatInt(70), Mean(MemEff(Successful(lookup.jobs))))
     /\ RatLE(RatInt(60), Mean(CPUEff(Successful(lookup.jobs))))
     /\ RatLE(RatInt(60), Mean(TimeEff(Successful(lookup.jobs))))) =>
        /\ enhanced.ResourceOptimizations = << >>
        /\ enhanced.Optimized = NoValue
        /\ enhanced.DecisionImpact = NoValue
        /\ enhanced.Current.Recommendation =
                Compare(localPartition, awsPartition, requests["original"], weights)

\* AnalyzeWithHistory has returned for runs whose mean efficiencies are
\* exactly 70%, 60% and 60% and that used less than half the memory asked for.
C17_Witness ==
    /\ Analyzed /\ LookupOK
    /\ Len(Successful(lookup.jobs)) >= MinHistory
    /\ Mean(MemEff(Successful(lookup.jobs))) = RatInt(70)
    /\ Mean(CPUEff(Successful(lookup.jobs))) = RatInt(60)
    /\ Mean(TimeEff(Successful(lookup.jobs))) = RatInt(60)
    /\ enhanced.ResourceOptimizations = << >>
    /\ enhanced.InstanceRecommendations # << >>

\* Scenario 1: five runs at 45% CPU and 68% memory efficiency for a request of
\* 32 cores and 256 GB, a loaded local partition ($52) and p3.8xlarge ($44.13).
Scenario1 ==
    /\ Analyzed /\ LookupOK
    /\ Len(lookup.jobs) = 5
    /\ \A i \in 1..Len(lookup.jobs) :
          /\ lookup.jobs[i].CPUEfficiency = RatInt(45)
          /\ lookup.jobs[i].MemoryEfficiency = RatInt(68)
    /\ requests["original"].CPUsPerTask = 32 /\ requests["original"].Nodes = 1
    /\ requests["original"].Memory = [num |-> 256, unit |-> "G"]
    /\ localPartition.EstimatedCost = [TotalCost |-> 5200]
    /\ awsPartition.EstimatedCost = [TotalCost |-> 4413]
    /\ enhanced.Current.Recommendation.Preferred = "aws"

\* C18: in Scenario 1 the optimized decision keeps the cloud,
\* decision_changed is false, and the cost difference of the optimized
\* decision is at least $5 closer to zero than the baseline's.
C18_Scenario1CostNarrows ==
    Scenario1 =>
        /\ enhanced.Optimized # NoValue
        /\ enhanced.Optimized.Recommendation.Preferred = "aws"
        /\ enhanced.DecisionImpact.DecisionChanged = FALSE
        /\ LET before == enhanced.Current.Recommendation.CostDifference
               after  == enhanced.Optimized.Recommendation.CostDifference
           IN  (IF before < 0 THEN -before ELSE before)
                 - (IF after < 0 THEN -after ELSE after) >= 500

\* ------------------------------------------------ claims on the execution plan

\* GenerateExecutionPlan has returned a plan.
Planned == plan # NoValue /\ plan.plan # NilRef

\* C19: a returned plan has should_burst true exactly when the recommendation
\* prefers the cloud; a plan with should_burst false carries the job metadata
\* and the reasoning, and its instance, MPI and network sections (and every
\* other cloud section) are left at their zero values.
C19_ShouldBurstIffCloud ==
    /\ Planned =>
          /\ plan.plan.ShouldBurst = (enhanced.Current.Recommendation.Preferred = "aws")
          /\ ~plan.plan.ShouldBurst =>
                /\ plan.plan.RecommendationReasoning = enhanced.Current.Recommendation.Reasoning
                /\ plan.plan.JobMetadata.JobName = requests["original"].JobName
                /\ plan.plan.InstanceSpecification = ZeroInstanceSpec
                /\ plan.plan.MPIConfiguration = ZeroMPIConfig
                /\ plan.plan.NetworkConfiguration = ZeroNetworkConfig
                /\ plan.plan.CostConstraints = ZeroCostConstraints
                /\ plan.plan.PerformanceTarget = ZeroPerformanceTarget
                /\ plan.plan.OptimizationApplied = << >>
    /\ (plan # NoValue /\ plan.plan = NilRef) =>
          enhanced.Current.Recommendation.Preferred = "aws"

\* GenerateExecutionPlan has returned a local plan for a request on two nodes
\* with earlier runs that led to optimizations.
C19_Witness ==
    /\ Planned
    /\ ~plan.plan.ShouldBurst
    /\ Len(plan.plan.RecommendationReasoning) > 0
    /\ requests["original"].Nodes > 1
    /\ Len(enhanced.ResourceOptimizations) > 0

\* What the spec requires of a plan with should_burst true.
PlanOK(e) ==
    /\ Len(e.InstanceSpecification.InstanceTypes) >= 1
    /\ e.InstanceSpecification.InstanceCount > 0
    /\ RatLE(RatInt(0), e.PerformanceTarget.ScalingEfficiency)
    /\ RatLE(e.PerformanceTarget.ScalingEfficiency, RatInt(1))
    /\ e.MPIConfiguration.IsMPIJob =>
          /\ e.MPIConfiguration.ProcessCount > 0
          /\ e.MPIConfiguration.ProcessesPerNode > 0

\* C20: a returned plan with should_burst true has an instance type, a
\* positive instance count, a scaling efficiency in [0, 1] and, for an MPI
\* job, positive process counts; when the populated plan breaks one of these,
\* GenerateExecutionPlan returns an error and no plan.
C20_NoInvalidPlan ==
    plan # NoValue =>
        /\ (plan.plan # NilRef /\ plan.plan.ShouldBurst) => PlanOK(plan.plan)
        /\ (plan.plan = NilRef) = (plan.err # "nil")
        /\ enhanced.Current.Recommendation.Preferred = "aws" =>
              \A domain \in Domains :
                  ~PlanOK(populateAWSExecutionPlan(
                              MinimalPlan(TRUE, requests["original"], domain),
                              enhanced, awsPartition, requests["original"]))
                      => (plan.plan = NilRef /\ plan.err # "nil")

\* GenerateExecutionPlan has returned a cloud plan for an MPI job of 8
\* processes whose instance family comes from the history.
C20_Witness ==
    /\ Planned
    /\ plan.plan.ShouldBurst
    /\ plan.plan.MPIConfiguration.IsMPIJob
    /\ plan.plan.MPIConfiguration.ProcessCount = 8
    /\ plan.plan.InstanceSpecification.InstanceTypes = << <<"r5", ".xlarge">> >>

\* ------------------------------------------------------------- SpecBurst
\* The commands that start from a submit script: execution-plan
\* (ParseBatchScript, ToJobRequest, AnalyzeWithHistory, GenerateExecutionPlan,
\* SaveExecutionPlan), detect-domain (ParseBatchScript, ToJobRequest,
\* DetectDomain) and the plain analysis (ParseBatchScript,
\* batchScriptToJobRequest, Compare).

\* A directive that the script does not give, or whose value is no number.
Absent == << >>

\* The submit scripts.  A numeric directive is the sequence of the numbers in
\* its value: <<2>> for 2, <<1, 4>> for the range 1-4, <<4, 0, 0>> for 04:00:00.
\* GPUs is the count of --gres=gpu:k (0 without the directive), Filename the
\* name and its extension, and Words the words of the script's text, in lower
\* case.
Scripts ==
    { [Filename |-> <<"train", ".py">>, JobName |-> "train", Nodes |-> <<2>>, NTasksPerNode |-> Absent,
       CPUsPerTask |-> <<16>>, Time |-> <<4, 0, 0>>, Memory |-> [num |-> 64, unit |-> "G"],
       GPUs |-> 4, Words |-> {"torchrun", "pytorch"}],
      [Filename |-> <<"wrf", ".sh">>, JobName |-> "mpi", Nodes |-> <<2>>, NTasksPerNode |-> <<4>>,
       CPUsPerTask |-> <<8>>, Time |-> <<120>>, Memory |-> [num |-> 256, unit |-> "G"],
       GPUs |-> 0, Words |-> {"wrf.exe"}],
      [Filename |-> <<"relax", ".sh">>, JobName |-> "relax", Nodes |-> <<1, 4>>, NTasksPerNode |-> <<2>>,
       CPUsPerTask |-> <<8>>, Time |-> <<8, 0, 0>>, Memory |-> [num |-> 64, unit |-> "G"],
       GPUs |-> 0, Words |-> {"lammps", "vasp"}],
      [Filename |-> <<"single", ".sh">>, JobName |-> "", Nodes |-> Absent, NTasksPerNode |-> Absent,
       CPUsPerTask |-> <<32>>, Time |-> <<8, 0, 0>>, Memory |-> [num |-> 256, unit |-> "G"],
       GPUs |-> 4, Words |-> {}],
      [Filename |-> <<"align", ".sh">>, JobName |-> "align", Nodes |-> <<2>>, NTasksPerNode |-> <<0>>,
       CPUsPerTask |-> Absent, Time |-> <<241>>, Memory |-> [num |-> 64, unit |-> "G"],
       GPUs |-> 0, Words |-> {"blastp"}],
      [Filename |-> <<"bare", ".sh">>, JobName |-> "", Nodes |-> Absent, NTasksPerNode |-> Absent,
       CPUsPerTask |-> Absent, Time |-> Absent, Memory |-> EmptyMemory,
       GPUs |-> 0, Words |-> {}] }

\* strconv.Atoi on a directive's value: the number, or 0 with an error.
Atoi(value) ==
    IF Len(value) = 1 THEN [ok |-> TRUE, n |-> value[1]] ELSE [ok |-> FALSE, n |-> 0]

\* parseNodeSpec: a number, or the size of a range a-b with b >= a.
parseNodeSpec(spec) ==
    IF Atoi(spec).ok THEN Atoi(spec)
    ELSE IF Len(spec) = 2 /\ spec[2] >= spec[1]
         THEN [ok |-> TRUE, n |-> spec[2] - spec[1] + 1]
         ELSE [ok |-> FALSE, n |-> 0]

\* parseSlurmTimeFormat, in minutes: "minutes", "minutes:seconds" and
\* "hours:minutes:seconds" (the scripts give whole minutes).
parseSlurmTimeFormat(timeStr) ==
    CASE Len(timeStr) = 1 -> timeStr[1]
      [] Len(timeStr) = 2 -> timeStr[1] + (timeStr[2] \div 60)
      [] Len(timeStr) = 3 -> timeStr[1] * 60 + timeStr[2] + (timeStr[3] \div 60)
      [] OTHER -> 0

\* validateBatchScript: the defaults of the fields a script leaves out.
validateBatchScript(s) ==
    [s EXCEPT !.JobName = IF @ = "" THEN "batch_job" ELSE @,
              !.Nodes = IF @ <= 0 THEN 1 ELSE @,
              !.CPUsPerTask = IF @ <= 0 THEN 1 ELSE @,
              !.NTasksPerNode = IF @ <= 0 THEN 1 ELSE @]

\* ParseBatchScript: the BatchScript of a submit script.  A directive whose
\* value does not parse leaves its field at zero.
ParseBatchScript(file) ==
    validateBatchScript(
        [Filename |-> file.Filename,
         JobName |-> file.JobName,
         Nodes |-> IF parseNodeSpec(file.Nodes).ok THEN parseNodeSpec(file.Nodes).n ELSE 0,
         NTasksPerNode |-> IF Atoi(file.NTasksPerNode).ok THEN Atoi(file.NTasksPerNode).n ELSE 0,
         CPUsPerTask |-> IF Atoi(file.CPUsPerTask).ok THEN Atoi(file.CPUsPerTask).n ELSE 0,
         TimeLimit |-> parseSlurmTimeFormat(file.Time),
         Memory |-> file.Memory,
         GRES |-> "tres1",
         Account |-> "research"])

\* batchScriptToJobRequest of the analysis command: NTasksPerNode is not copied.
batchScriptToJobRequest(b) ==
    [JobName |-> b.JobName, Account |-> b.Account, Nodes |-> b.Nodes, NTasksPerNode |-> 0,
     CPUsPerTask |-> b.CPUsPerTask, Memory |-> b.Memory, TimeLimit |-> b.TimeLimit,
     TRES |-> b.GRES]

\* BatchScript.ToJobRequest
ToJobRequest(b) ==
    [JobName |-> b.JobName, Account |-> b.Account, Nodes |-> b.Nodes,
     NTasksPerNode |-> b.NTasksPerNode,
     CPUsPerTask |-> b.CPUsPerTask, Memory |-> b.Memory, TimeLimit |-> b.TimeLimit,
     TRES |-> b.GRES]

\* ------------------------------------------------------------ DetectDomain
\* DomainDetector.  Scores are exact rationals.

\* initializeDomainPatterns: the script patterns of the four domains.
ScriptPatterns ==
    [climate_modeling |->
        [Keywords |-> {"wrf", "gromacs", "namd", "climate", "weather", "atmospheric"},
         Executables |-> {"wrf.exe", "gmx", "namd2", "real.exe"},
         FileExtensions |-> {".mdp", ".pdb", ".psf"}],
     machine_learning |->
        [Keywords |-> {"pytorch", "tensorflow", "training", "model", "neural", "deep learning"},
         Executables |-> {"python", "torchrun", "horovodrun"},
         FileExtensions |-> {".py", ".ipynb"}],
     bioinformatics |->
        [Keywords |-> {"blast", "bwa", "samtools", "gatk", "genome", "sequence"},
         Executables |-> {"blastp", "bwa", "samtools", "gatk"},
         FileExtensions |-> {".fasta", ".fastq", ".sam", ".bam"}],
     computational_physics |->
        [Keywords |-> {"lammps", "quantum", "vasp", "gaussian", "dft"},
         Executables |-> {"lmp", "vasp", "g16", "qe.x"},
         FileExtensions |-> {".in", ".inp", ".com"}]]

\* initializeDomainProfiles: the profiles of the detector.
DomainProfiles ==
    [climate_modeling |->
        [MPICommunicationPattern |-> "nearest_neighbor", RequiresEFA |-> TRUE,
         OptimalInstanceTypes |-> << [class |-> "c", family |-> "c5n", size |-> "18xlarge"],
                                     [class |-> "m", family |-> "m5n", size |-> "24xlarge"] >>],
     machine_learning |->
        [MPICommunicationPattern |-> "all_reduce", RequiresEFA |-> TRUE,
         OptimalInstanceTypes |-> << [class |-> "p", family |-> "p3dn", size |-> "24xlarge"],
                                     [class |-> "p", family |-> "p4d", size |-> "24xlarge"] >>],
     bioinformatics |->
        [MPICommunicationPattern |-> "embarrassingly_parallel", RequiresEFA |-> FALSE,
         OptimalInstanceTypes |-> << [class |-> "c", family |-> "c5", size |-> "24xlarge"],
                                     [class |-> "r", family |-> "r5", size |-> "12xlarge"] >>]]

\* initializeDomainProfiles: the resource patterns of the detector.
ResourcePatterns ==
    [climate_modeling |-> [TypicalNodeCount |-> 16, GPURequired |-> FALSE, MemoryIntensive |-> TRUE],
     machine_learning |-> [TypicalNodeCount |-> 8, GPURequired |-> TRUE, MemoryIntensive |-> TRUE],
     bioinformatics |-> [TypicalNodeCount |-> 4, GPURequired |-> FALSE, MemoryIntensive |-> TRUE]]

\* strings.Contains(content, pattern) on the text of a script: the pattern
\* is a word of the text or occurs inside one.
Contains(words, pattern) ==
    \E w \in words :
        \/ pattern = w
        \/ w = "wrf.exe" /\ pattern = "wrf"
        \/ w = "blastp" /\ pattern = "blast"

\* analyzeScriptContent: the score of one domain.
ScriptScore(file, domain) ==
    LET pattern == ScriptPatterns[domain]
        keywords == Cardinality({ k \in pattern.Keywords : Contains(file.Words, k) })
        executables == Cardinality({ e \in pattern.Executables : Contains(file.Words, e) })
        extensions == Cardinality({ x \in pattern.FileExtensions : file.Filename[2] = x })
    IN  Rat(2 * keywords + 3 * executables + extensions, 10)

\* analyzeResourcePattern: the score of one domain.  The memory per CPU is a
\* float64 division: +Inf for no CPU and some memory, NaN for neither.
ResourceScore(job, domain) ==
    LET pattern == ResourcePatterns[domain]
        totalCPUs == TotalCPUs(job)
        memoryMB == ParseMemoryString(job.Memory).mb
        aboveFour == IF totalCPUs > 0 THEN memoryMB > 4096 * totalCPUs ELSE memoryMB > 0
        atMostFour == IF totalCPUs > 0 THEN memoryMB <= 4096 * totalCPUs ELSE FALSE
        gpu == IF pattern.GPURequired = HasGPUs(job) THEN 3 ELSE 0
        nodes == IF job.Nodes >= pattern.TypicalNodeCount \div 2
                    /\ job.Nodes <= pattern.TypicalNodeCount * 2 THEN 2 ELSE 0
        memory == IF job.Memory = EmptyMemory THEN 0
                  ELSE IF pattern.MemoryIntensive /\ aboveFour THEN 3
                  ELSE IF ~pattern.MemoryIntensive /\ atMostFour THEN 2 ELSE 0
    IN  Rat(gpu + nodes + memory, 10)

\* detectionScore: 60% of the script score plus 40% of the resource score.
DetectionScore(file, job, domain) ==
    RatAdd(RatMul(ScriptScore(file, domain), Rat(6, 10)),
           IF domain \in DOMAIN ResourcePatterns
           THEN RatMul(ResourceScore(job, domain), Rat(4, 10)) ELSE RatInt(0))

\* The highest detection score.
BestScore(file, job) ==
    CHOOSE best \in { DetectionScore(file, job, d) : d \in DOMAIN ScriptPatterns } :
        \A d \in DOMAIN ScriptPatterns : RatLE(DetectionScore(file, job, d), best)

\* getNetworkSensitivity
getNetworkSensitivity(profile) ==
    IF profile.RequiresEFA THEN "high"
    ELSE IF profile.MPICommunicationPattern = "all_reduce" THEN "high"
    ELSE IF profile.MPICommunicationPattern = "nearest_neighbor" THEN "medium"
    ELSE "low"

\* getScalingBehavior
getScalingBehavior(profile) ==
    CASE profile.MPICommunicationPattern = "nearest_neighbor" -> "strong_scaling"
      [] profile.MPICommunicationPattern = "all_reduce" -> "weak_scaling"
      [] profile.MPICommunicationPattern = "embarrassingly_parallel" -> "linear"
      [] OTHER -> "unknown"

\* getMemoryIntensity
getMemoryIntensity(profile) ==
    IF \E i \in 1..Len(profile.OptimalInstanceTypes) :
           profile.OptimalInstanceTypes[i].class = "r"
    THEN "high" ELSE "medium"

\* getComputeIntensity
getComputeIntensity(profile) ==
    IF \E i \in 1..Len(profile.OptimalInstanceTypes) :
           profile.OptimalInstanceTypes[i].class = "c"
    THEN "high" ELSE "medium"

\* getInstanceFamilies: the families, in the order the map iteration gives.
getInstanceFamilies(instanceTypes) ==
    { instanceTypes[i].family : i \in 1..Len(instanceTypes) }

\* getDomainCharacteristics: the profile of the domain, or the defaults.
getDomainCharacteristics(domain) ==
    IF domain \notin DOMAIN DomainProfiles
    THEN [TypicalCommunicationPattern |-> "unknown", NetworkSensitivity |-> "medium",
          ScalingBehavior |-> "linear", MemoryIntensity |-> "medium",
          ComputeIntensity |-> "medium", OptimalInstanceFamilies |-> {}]
    ELSE LET profile == DomainProfiles[domain]
         IN  [TypicalCommunicationPattern |-> profile.MPICommunicationPattern,
              NetworkSensitivity |-> getNetworkSensitivity(profile),
              ScalingBehavior |-> getScalingBehavior(profile),
              MemoryIntensity |-> getMemoryIntensity(profile),
              ComputeIntensity |-> getComputeIntensity(profile),
              OptimalInstanceFamilies |-> getInstanceFamilies(profile.OptimalInstanceTypes)]

\* DetectDomain: the classifications a call may return.  The best match is
\* the first domain of the map iteration with the highest score, so that any
\* of the domains that share the highest score may be returned.
DetectDomain(file, job) ==
    LET bestScore == BestScore(file, job)
    IN  IF RatLT(bestScore, Rat(3, 10))
        THEN { [Domain |-> "unknown", Confidence |-> RatInt(0),
                DetectionMethods |-> <<"insufficient_data">>,
                DomainCharacteristics |->
                    [TypicalCommunicationPattern |-> "", NetworkSensitivity |-> "",
                     ScalingBehavior |-> "", MemoryIntensity |-> "",
                     ComputeIntensity |-> "", OptimalInstanceFamilies |-> {}]] }
        ELSE { [Domain |-> d, Confidence |-> bestScore,
                DetectionMethods |-> <<"script_analysis", "resource_pattern">>,
                DomainCharacteristics |-> getDomainCharacteristics(d)] :
                 d \in { x \in DOMAIN ScriptPatterns :
                            DetectionScore(file, job, x) = bestScore } }

\* ------------------------------------------------- budget-aware analyzer
\* BudgetAwareAnalyzer over the ASBB client.  Amounts are whole cents.

\* A query of the ASBB client that returned an error.
Failed == [failed |-> TRUE]

\* What the ASBB service may answer: to the health probe (a status code, or
\* no answer), and to the status, affordability and timeline queries.
ASBBAnswers ==
    [Health : {"200", "503", "no answer"},
     Status : {Failed,
               [HealthScore |-> 40, BurnRate |-> 5000, BudgetAvailable |-> 100000,
                GrantDaysRemaining |-> 20]},
     Affordability : {Failed,
                      [RecommendedDecision |-> "LOCAL", BudgetRisk |-> "high"],
                      [RecommendedDecision |-> "EITHER", BudgetRisk |-> "low"]},
     Timeline : {Failed,
                 [UpcomingDeadlines |-> << [Urgency |-> "critical", DaysUntil |-> 7] >>]}]

\* ASBBClient.IsAvailable: the probe answered with 200.
IsAvailable(asbb) == asbb.Health = "200"

\* generateBudgetRecommendation
generateBudgetRecommendation(analysis, budgetStatus, affordabilityCheck) ==
    LET preferred == analysis.Current.Recommendation.Preferred
        decision  == IF affordabilityCheck = NilRef THEN ""
                     ELSE affordabilityCheck.RecommendedDecision
    IN  [FinalRecommendation |->
            CASE decision = "LOCAL" -> "local"
              [] decision = "AWS" -> "aws"
              [] OTHER -> preferred,
         BudgetInfluence |->
            CASE decision = "LOCAL" -> "Budget constraints favor local execution"
              [] decision = "AWS" -> "Budget allows AWS execution for better performance"
              [] decision = "EITHER" -> "Budget neutral - technical factors determine decision"
              [] OTHER -> "",
         BudgetRisk |->
            CASE decision \in {"LOCAL", "AWS"} -> affordabilityCheck.BudgetRisk
              [] decision = "EITHER" -> "low"
              [] OTHER -> "",
         CostOptimizationAdvice |->
            (IF budgetStatus.HealthScore < 50
             THEN <<"Budget health low - prioritize cost optimization">> ELSE << >>)
            \o (IF budgetStatus.BurnRate * 30 > budgetStatus.BudgetAvailable
                THEN <<"High burn rate detected - consider local execution">> ELSE << >>)
            \o (IF budgetStatus.GrantDaysRemaining < 30
                THEN <<"Grant ending soon - preserve budget for critical experiments">>
                ELSE << >>)]

\* generateTimelineOptimization.  The urgency of one deadline is
\* 1/(1 + days/7), doubled when critical, and 0 for a deadline that is
\* neither high nor critical.
generateTimelineOptimization(timeline) ==
    LET deadlines  == timeline.UpcomingDeadlines
        urgencies  ==
            { IF deadlines[i].Urgency \notin {"high", "critical"} THEN RatInt(0)
              ELSE RatMul(Rat(7, 7 + deadlines[i].DaysUntil),
                          IF deadlines[i].Urgency = "critical" THEN RatInt(2)
                          ELSE RatInt(1)) : i \in 1..Len(deadlines) } \cup { RatInt(0) }
        maxUrgency == CHOOSE u \in urgencies : \A v \in urgencies : RatLE(v, u)
    IN  [UrgencyFactor |-> maxUrgency,
         DeadlinePressure |->
            IF RatLT(Rat(8, 10), maxUrgency) THEN "critical"
            ELSE IF RatLT(Rat(5, 10), maxUrgency) THEN "high"
            ELSE IF RatLT(Rat(2, 10), maxUrgency) THEN "medium"
            ELSE "low"]

\* A BudgetAwareAnalysis that carries the base analysis only.
BaseOnly(enhancedAnalysis) ==
    [EnhancedAnalysis |-> enhancedAnalysis, BudgetStatus |-> NilRef,
     AffordabilityCheck |-> NilRef, GrantTimeline |-> NilRef,
     BudgetRecommendation |-> NilRef, TimelineOptimization |-> NilRef]

\* AnalyzeWithBudgetConstraints returning the error of the budget status query.
AnalyzeWithBudgetConstraintsFatal(base, enabled, account, asbb) ==
    IF base = Panic THEN Panic
    ELSE IF ~enabled \/ account = "" THEN [analysis |-> BaseOnly(base), err |-> "nil"]
    ELSE IF ~IsAvailable(asbb) THEN [analysis |-> BaseOnly(base), err |-> "nil"]
    ELSE IF asbb.Status = Failed
         THEN [analysis |-> NilRef, err |-> "failed to get budget status"]
    ELSE [analysis |-> [BaseOnly(base) EXCEPT !.BudgetStatus = asbb.Status], err |-> "nil"]

\* AnalyzeWithBudgetConstraints after the base analysis `base` (what
\* AnalyzeWithHistory returned): the analysis and the error it returns.
AnalyzeWithBudgetConstraints(base, enabled, account, asbb) ==
    IF base = Panic THEN Panic
    ELSE IF ~enabled \/ account = "" THEN [analysis |-> BaseOnly(base), err |-> "nil"]
    ELSE IF ~IsAvailable(asbb) THEN [analysis |-> BaseOnly(base), err |-> "nil"]
    ELSE IF asbb.Status = Failed THEN [analysis |-> BaseOnly(base), err |-> "nil"]
    ELSE LET affordabilityCheck == IF asbb.Affordability = Failed THEN NilRef
                                   ELSE asbb.Affordability
             grantTimeline == IF asbb.Timeline = Failed THEN NilRef ELSE asbb.Timeline
         IN  [analysis |->
                 [EnhancedAnalysis |-> base,
                  BudgetStatus |-> asbb.Status,
                  AffordabilityCheck |-> affordabilityCheck,
                  GrantTimeline |-> grantTimeline,
                  BudgetRecommendation |->
                      generateBudgetRecommendation(base, asbb.Status, affordabilityCheck),
                  TimelineOptimization |->
                      IF grantTimeline # NilRef
                      THEN generateTimelineOptimization(grantTimeline) ELSE NilRef],
              err |-> "nil"]

\* ------------------------------------------------- execution plan as JSON

\* ExecutionPlan.ToJSON: no bytes and an error, for every plan.
ToJSON(e) == [data |-> NilRef, err |-> "JSON serialization not implemented yet"]

\* json.MarshalIndent of an ExecutionPlan: the object under the keys of the
\* json tags (the sections are objects of their own fields).  Time.MarshalJSON
\* writes the wall clock reading in RFC 3339, not the monotonic clock reading.
MarshalIndent(e) ==
    [should_burst |-> e.ShouldBurst,
     generated_at |-> e.GeneratedAt.wall,
     job_metadata |-> e.JobMetadata,
     instance_specification |-> e.InstanceSpecification,
     mpi_configuration |-> e.MPIConfiguration,
     network_configuration |-> e.NetworkConfiguration,
     cost_constraints |-> e.CostConstraints,
     performance_target |-> e.PerformanceTarget,
     recommendation_reasoning |-> e.RecommendationReasoning,
     confidence_level |-> e.ConfidenceLevel,
     optimization_applied |-> e.OptimizationApplied]

\* json.Unmarshal of such an object into a zero ExecutionPlan.
\* Time.UnmarshalJSON gives the Time of an RFC 3339 string, without a
\* monotonic clock reading.
Unmarshal(data) ==
    [ShouldBurst |-> data.should_burst,
     GeneratedAt |-> [wall |-> data.generated_at, monotonic |-> FALSE],
     JobMetadata |-> data.job_metadata,
     RecommendationReasoning |-> data.recommendation_reasoning,
     InstanceSpecification |-> data.instance_specification,
     MPIConfiguration |-> data.mpi_configuration,
     NetworkConfiguration |-> data.network_configuration,
     CostConstraints |-> data.cost_constraints,
     PerformanceTarget |-> data.performance_target,
     ConfidenceLevel |-> data.confidence_level,
     OptimizationApplied |-> data.optimization_applied]

\* SaveExecutionPlan: the file it writes.
SaveExecutionPlan(e) == MarshalIndent(e)

\* LoadExecutionPlan: the plan of a file, or the error of its validation.
LoadExecutionPlan(file) ==
    LET e == Unmarshal(file)
    IN  IF Validate(e) # "nil"
        THEN [plan |-> NilRef, err |-> "loaded execution plan is invalid"]
        ELSE [plan |-> e, err |-> "nil"]

\* ------------------------------------------------------ SpecBurst, actions

\* The histories the store may hold when a burst command runs: none, or three
\* successful runs of the over-allocated profile or of a short one (runs
\* that ended after half an hour of an 8-hour limit), stored under the hash
\* getScriptHash computes.
BurstHistories ==
    { EarlierRunsOf(profile, k, getScriptHash, 0) :
        profile \in {Profiles[1],
                     [SubmissionTime |-> 0, RequestedCPUs |-> 32,
                      RequestedMemoryMB |-> 262144, CPUEfficiency |-> 80,
                      MemoryEfficiency |-> 85, TimeEfficiency |-> 6,
                      MaxMemoryUsedMB |-> 222822, ActualCPUMemRatio |-> 7,
                      ActualTime |-> 1800, ExecutionPlatform |-> "local"]},
        k \in {0, PatternRuns} }

\* The analyses of the local partition: the loaded one, and one whose 16
\* nodes are all busy (10 hours of wait, $52).
BurstLocalAnalyses ==
    { a \in LocalAnalyses : a.AvailableNodes = 4 } \cup
    { [Type |-> "local", QueueDepth |-> 20, EstimatedWaitTime |-> 600, StartupTime |-> 0,
       AvailableNodes |-> 0, TotalNodes |-> 16, InstanceType |-> "",
       EstimatedCost |-> [TotalCost |-> 5200]] }

\* The analyses of the burst partition that carry a cost.
BurstAWSAnalyses == { a \in AWSAnalyses : a.EstimatedCost # NilRef }

\* ParseBatchScript on the script, and the conversion of its result to a
\* JobRequest: ToJobRequest in the burst commands, batchScriptToJobRequest in
\* the analysis command.  The GRES map of the script becomes the TRES map of
\* the request.
ParseBatchScriptCall ==
    /\ advPc = "script"
    /\ batch' = ParseBatchScript(script)
    /\ requests' = [original |-> IF command = "analyze"
                                 THEN batchScriptToJobRequest(batch')
                                 ELSE ToJobRequest(batch'),
                    optimized |-> NoValue]
    /\ tres' = [tres1 |-> script.GPUs]
    /\ advPc' = "start"
    /\ UNCHANGED <<weights, localPartition, awsPartition, lookup, recommendation,
                   enhanced, plan>>
    /\ UNCHANGED <<script, command, classification, budgetAnalysis, serialized,
                   planFile, loaded>>
    /\ UNCHANGED <<storeVars, joinVars, cacheVars>>

\* runDetectDomainCommand: DetectDomain on the script and the request.
DetectDomainCall(result) ==
    /\ advPc = "start"
    /\ command = "detect-domain"
    /\ classification' = result
    /\ advPc' = "detected"
    /\ UNCHANGED <<weights, localPartition, awsPartition, requests, tres, lookup,
                   recommendation, enhanced, plan>>
    /\ UNCHANGED <<script, batch, command, budgetAnalysis, serialized, planFile, loaded>>
    /\ UNCHANGED <<storeVars, joinVars, cacheVars>>

\* ExecutionPlan.ToJSON on the plan that was generated.
ToJSONCall ==
    /\ advPc = "planned"
    /\ plan.plan # NilRef
    /\ serialized' = ToJSON(plan.plan)
    /\ advPc' = "serialized"
    /\ UNCHANGED <<weights, localPartition, awsPartition, requests, tres, lookup,
                   recommendation, enhanced, plan>>
    /\ UNCHANGED <<script, batch, command, classification, budgetAnalysis, planFile, loaded>>
    /\ UNCHANGED <<storeVars, joinVars, cacheVars>>

\* SaveExecutionPlan on the plan that was generated.
SaveExecutionPlanCall ==
    /\ advPc = "planned"
    /\ plan.plan # NilRef
    /\ planFile' = SaveExecutionPlan(plan.plan)
    /\ advPc' = "saved"
    /\ UNCHANGED <<weights, localPartition, awsPartition, requests, tres, lookup,
                   recommendation, enhanced, plan>>
    /\ UNCHANGED <<script, batch, command, classification, budgetAnalysis, serialized, loaded>>
    /\ UNCHANGED <<storeVars, joinVars, cacheVars>>

\* LoadExecutionPlan on the file that was saved.
LoadExecutionPlanCall ==
    /\ advPc = "saved"
    /\ loaded' = LoadExecutionPlan(planFile)
    /\ advPc' = "loaded"
    /\ UNCHANGED <<weights, localPartition, awsPartition, requests, tres, lookup,
                   recommendation, enhanced, plan>>
    /\ UNCHANGED <<script, batch, command, classification, budgetAnalysis, serialized,
                   planFile>>
    /\ UNCHANGED <<storeVars, joinVars, cacheVars>>

InitBurst ==
    /\ \E runs \in BurstHistories :
          /\ jobHistory = StoreAll(EmptyDB, runs).history
          /\ jobPatterns = StoreAll(EmptyDB, runs).patterns
    /\ storeCall = NoCall
    /\ stores = 0
    /\ found = NoResult
    /\ JoinIdle
    /\ CacheIdle
    /\ advPc = "script"
    /\ weights \in Weights
    /\ localPartition \in BurstLocalAnalyses
    /\ awsPartition \in BurstAWSAnalyses
    /\ requests = NoValue
    /\ tres = NoValue
    /\ lookup = NoValue
    /\ recommendation = NoValue
    /\ enhanced = NoValue
    /\ plan = NoValue
    /\ script \in Scripts
    /\ command \in {"execution-plan", "detect-domain", "analyze"}
    /\ batch = NoValue
    /\ classification = NoValue
    /\ budgetAnalysis = NoValue
    /\ serialized = NoValue
    /\ planFile = NoValue
    /\ loaded = NoValue

NextBurst ==
    \/ ParseBatchScriptCall
    \/ command = "analyze" /\ CompareCall
    \/ /\ advPc = "start"
       /\ \E result \in DetectDomain(script, requests["original"]) : DetectDomainCall(result)
    \/ /\ advPc = "start" /\ command = "execution-plan"
       /\ \E similar \in Lookups(jobHistory, requests["original"]) :
              AnalyzeWithHistoryCall(similar)
    \/ /\ advPc = "analyzed"
       /\ \E result \in DetectDomain(script, requests["original"]) :
              GenerateExecutionPlanCall(result.Domain)
    \/ ToJSONCall
    \/ SaveExecutionPlanCall
    \/ LoadExecutionPlanCall

SpecBurst == InitBurst /\ [][NextBurst]_vars

\* ---------------------------------------------------- claims on burst plans

\* A plan was returned by GenerateExecutionPlan in a burst command.
Generated == plan # NoValue /\ plan.plan # NilRef

\* C21: a plan that is serialized and parsed back is structurally equal to
\* the original, and Validate gives the same verdict on both: ToJSON returns
\* the bytes of every plan, and the plan LoadExecutionPlan returns for the
\* file SaveExecutionPlan wrote equals the plan that was saved.
C21_PlanRoundTrips ==
    /\ serialized # NoValue => serialized.err = "nil"
    /\ loaded # NoValue =>
          /\ (loaded.err = "nil") = (Validate(plan.plan) = "nil")
          /\ loaded.plan = plan.plan

\* ------------------------------------------------------------ SpecBudget
\* BudgetAwareAnalyzer.AnalyzeWithBudgetConstraints on one request.

\* AnalyzeWithBudgetConstraints on the request: AnalyzeWithHistory, then the
\* queries to the ASBB service.  enabled is budgetClient != nil.
AnalyzeWithBudgetConstraintsCall(similar, enabled, account, asbb) ==
    /\ advPc = "start"
    /\ LET result == AnalyzeWithHistory(requests, localPartition, awsPartition,
                                        "original", weights, similar)
       IN  /\ requests' = result.mem
           /\ enhanced' = result.enhanced
           /\ budgetAnalysis' =
                 [enabled |-> enabled, account |-> account, asbb |-> asbb,
                  returned |-> AnalyzeWithBudgetConstraints(result.enhanced, enabled,
                                                            account, asbb)]
           /\ advPc' = IF result.enhanced = Panic THEN "crashed" ELSE "budgeted"
    /\ lookup' = similar
    /\ UNCHANGED <<weights, localPartition, awsPartition, tres, recommendation, plan>>
    /\ UNCHANGED <<script, batch, command, classification, serialized, planFile, loaded>>
    /\ UNCHANGED <<storeVars, joinVars, cacheVars>>

InitBudget ==
    /\ \E runs \in BurstHistories :
          /\ jobHistory = StoreAll(EmptyDB, runs).history
          /\ jobPatterns = StoreAll(EmptyDB, runs).patterns
    /\ storeCall = NoCall
    /\ stores = 0
    /\ found = NoResult
    /\ JoinIdle
    /\ CacheIdle
    /\ advPc = "start"
    /\ weights = [TimeWeight |-> Rat(7, 10), CostWeight |-> Rat(3, 10),
                  ReliabilityWeight |-> RatInt(0)]
    /\ localPartition \in BurstLocalAnalyses
    /\ awsPartition \in BurstAWSAnalyses
    /\ \E job \in Requests : requests = [original |-> job, optimized |-> NoValue]
    /\ tres = [tres1 |-> 4]
    /\ lookup = NoValue
    /\ recommendation = NoValue
    /\ enhanced = NoValue
    /\ plan = NoValue
    /\ BurstIdle

NextBudget ==
    \E similar \in Lookups(jobHistory, requests["original"]), enabled \in BOOLEAN,
       account \in {"", "research"}, asbb \in ASBBAnswers :
        AnalyzeWithBudgetConstraintsCall(similar, enabled, account, asbb)

SpecBudget == InitBudget /\ [][NextBudget]_vars

\* AnalyzeWithBudgetConstraints has returned (the base analysis did not panic).
Budgeted == budgetAnalysis # NoValue /\ budgetAnalysis.returned # Panic

\* C22: whatever the budget collaborator answers (no answer or no 200 to the
\* health probe, a failed status, affordability or timeline query),
\* AnalyzeWithBudgetConstraints returns no error, and the enhanced analysis
\* it carries (the baseline and the optimized decision) is the one
\* AnalyzeWithHistory computes without the collaborator.
C22_BudgetFailureNotFatal ==
    Budgeted =>
        /\ budgetAnalysis.returned.err = "nil"
        /\ budgetAnalysis.returned.analysis.EnhancedAnalysis =
              AnalyzeWithHistory(requests, localPartition, awsPartition, "original",
                                 weights, lookup).enhanced

\* The status query failed after a health probe that answered 200, for a
\* request with an optimized decision, and the analysis was returned.
C22_Witness ==
    /\ Budgeted
    /\ budgetAnalysis.enabled /\ budgetAnalysis.account # ""
    /\ IsAvailable(budgetAnalysis.asbb)
    /\ budgetAnalysis.asbb.Status = Failed
    /\ budgetAnalysis.returned.err = "nil"
    /\ budgetAnalysis.returned.analysis.BudgetStatus = NilRef
    /\ budgetAnalysis.returned.analysis.EnhancedAnalysis.Optimized # NoValue

\* GenerateExecutionPlan has returned a plan that bursts to AWS.
BurstPlan == Generated /\ plan.plan.ShouldBurst

\* C23: in every burst plan the purchasing option is on-demand exactly when
\* the time limit of the job exceeds 4 hours (240 minutes) and spot
\* otherwise, and the spot configuration allows the fallback to on-demand.
C23_PurchasingOption ==
    BurstPlan =>
        /\ plan.plan.InstanceSpecification.PurchasingOption =
              (IF requests["original"].TimeLimit > 240 THEN "on-demand" ELSE "spot")
        /\ plan.plan.InstanceSpecification.SpotInstanceConfig.FallbackToOnDemand

\* A burst plan for a job of exactly 4 hours, bought as spot instances.
C23_Witness ==
    /\ BurstPlan
    /\ requests["original"].TimeLimit = 240
    /\ plan.plan.InstanceSpecification.PurchasingOption = "spot"
    /\ plan.plan.InstanceSpecification.SpotInstanceConfig.EnableSpot
    /\ plan.plan.InstanceSpecification.SpotInstanceConfig.FallbackToOnDemand

\* A burst plan for the job of train.py: 2 nodes, 1 task per node, 16 CPUs per
\* task, 4 GPUs, 64G and a time limit of 04:00:00.
ScenarioFourPlan ==
    /\ BurstPlan
    /\ script.Filename = <<"train", ".py">>
    /\ requests["original"].Nodes = 2 /\ requests["original"].NTasksPerNode = 1
    /\ requests["original"].CPUsPerTask = 16 /\ requests["original"].TimeLimit = 240

\* C24 as stated: the burst plan of the job whose time limit is exactly 4
\* hours has the purchasing option on-demand.
C24_FourHoursOnDemand ==
    ScenarioFourPlan => plan.plan.InstanceSpecification.PurchasingOption = "on-demand"

\* C24: the burst plan of the job whose time limit is exactly 4 hours has the
\* purchasing option spot with spot enabled (4 hours do not exceed 4 hours),
\* and its cost constraints do not prefer spot (4 hours are not under 4 hours).
C24_FourHoursSpot ==
    ScenarioFourPlan =>
        /\ plan.plan.InstanceSpecification.PurchasingOption = "spot"
        /\ plan.plan.InstanceSpecification.SpotInstanceConfig.EnableSpot
        /\ ~plan.plan.CostConstraints.PreferSpot

\* The burst plan of train.py, detected as machine learning.
C24_Witness ==
    /\ ScenarioFourPlan
    /\ plan.plan.JobMetadata.DetectedDomain = "machine_learning"
    /\ plan.plan.MPIConfiguration.IsMPIJob
    /\ plan.plan.InstanceSpecification.PurchasingOption = "spot"

\* The CPUs-per-task values suggested by the "cpu" optimizations of an analysis.
CPUSuggestions(analysis) ==
    { analysis.ResourceOptimizations[i].SuggestedValue :
        i \in { k \in 1..Len(analysis.ResourceOptimizations) :
                    analysis.ResourceOptimizations[k].ResourceType = "cpu" } }

\* generateResourceOptimizations reached its CPU block with a mean CPU
\* efficiency under 60%, for a request of at least one node and at least one
\* task per node.
LowCPUEfficiency ==
    /\ Analyzed /\ LookupOK
    /\ Len(lookup.jobs) >= MinHistory /\ Successful(lookup.jobs) # << >>
    /\ RatLT(Mean(CPUEff(Successful(lookup.jobs))), RatInt(60))
    /\ requests["original"].Nodes > 0 /\ requests["original"].NTasksPerNode > 0

\* C25: when the mean CPU efficiency of the successful similar runs is under
\* 60%, the CPU suggestion is max(1, floor(1.2 * effective / N)) with
\* effective = N * T * C * cpu_eff / 100, and it is emitted exactly when it is
\* strictly less than the current CPUs per task.
C25_CPUSuggestionFromTotalCPUs ==
    LowCPUEfficiency =>
        LET job       == requests["original"]
            effective == RatMul(RatInt(TotalCPUs(job)),
                                RatMul(Mean(CPUEff(Successful(lookup.jobs))), Rat(1, 100)))
            suggested == Max(1, RatTrunc(RatMul(effective, Rat(12, 10 * job.Nodes))))
        IN  CPUSuggestions(enhanced) =
                IF suggested < job.CPUsPerTask THEN {suggested} ELSE {}

\* Compare has scored the two venues (alone, or as the first step of
\* AnalyzeWithHistory).
Scored == (recommendation # NoValue /\ recommendation # Panic) \/ Analyzed

\* C26: the availability sub-score of the local venue is
\* 100 * available_nodes / total_nodes whenever total_nodes > 0 (0 when no
\* node is available) and 50 only when total_nodes = 0; the one of the cloud
\* venue is 90.
C26_AvailabilityScore ==
    Scored =>
        /\ AvailScore(localPartition) =
              (IF localPartition.TotalNodes > 0
               THEN Rat(100 * localPartition.AvailableNodes, localPartition.TotalNodes)
               ELSE RatInt(50))
        /\ AvailScore(awsPartition) = RatInt(90)

\* A request has been built from the parsed submit script.
RequestBuilt == batch # NoValue /\ requests # NoValue

\* C27: a burst plan marks the job as MPI exactly when N > 1, every MPI plan
\* has process_count = N * T and processes_per_node = T, and T, the tasks per
\* node of the request, is the one of the parsed script (1 when the script
\* gives none) and at least 1 for every request built from a parsed script.
C27_MPIProcessCounts ==
    /\ BurstPlan =>
          /\ plan.plan.MPIConfiguration.IsMPIJob = (requests["original"].Nodes > 1)
          /\ plan.plan.MPIConfiguration.IsMPIJob =>
                /\ plan.plan.MPIConfiguration.ProcessCount =
                      requests["original"].Nodes * batch.NTasksPerNode
                /\ plan.plan.MPIConfiguration.ProcessesPerNode = batch.NTasksPerNode
    /\ RequestBuilt =>
          /\ requests["original"].NTasksPerNode = batch.NTasksPerNode
          /\ requests["original"].NTasksPerNode >= 1

\* C28: in the network configuration of every burst plan, enable_sr_iov is
\* true whenever enable_efa is true or the bandwidth requirement is
\* very_high, and enable_efa implies the placement group type cluster.
C28_SRIOVWithEFA ==
    BurstPlan =>
        /\ (plan.plan.NetworkConfiguration.EnableEFA
              \/ plan.plan.NetworkConfiguration.BandwidthRequirement = "very_high")
           => plan.plan.NetworkConfiguration.EnableSRIOV
        /\ plan.plan.NetworkConfiguration.EnableEFA
           => plan.plan.NetworkConfiguration.PlacementGroupType = "cluster"

\* DetectDomain has returned the classification of the script.
Detected == classification # NoValue

\* C29: DetectDomain returns unknown with confidence 0 exactly when the
\* highest domain score is under 0.3; otherwise it returns a domain with the
\* highest score, and the communication pattern attached to it is the one of
\* the domain's table entry, for each of the four domains.
C29_DetectedProfileFromTable ==
    Detected =>
        LET bestScore == BestScore(script, requests["original"])
        IN  /\ (classification.Domain = "unknown" /\ classification.Confidence = RatInt(0))
                  <=> RatLT(bestScore, Rat(3, 10))
            /\ ~RatLT(bestScore, Rat(3, 10)) =>
                  /\ classification.Domain \in DOMAIN ScriptPatterns
                  /\ DetectionScore(script, requests["original"], classification.Domain)
                        = bestScore
                  /\ classification.DomainCharacteristics.TypicalCommunicationPattern =
                        GetDomainConfiguration(classification.Domain).MPICommunicationPattern

\* AnalyzeWithHistory built an optimized request from a request that is a
\* valid JobRequest with some memory.
OptimizedValidRequest ==
    /\ Analyzed /\ requests["optimized"] # NoValue
    /\ requests["original"].Nodes > 0 /\ requests["original"].CPUsPerTask > 0
    /\ requests["original"].TimeLimit > 0
    /\ ParseMemoryString(requests["original"].Memory).mb > 0

\* C30: the optimized request built by applying the emitted optimizations is
\* still a valid JobRequest, for every history: its time limit is strictly
\* positive, its CPUs per task are at least 1 and its memory is positive.
C30_OptimizedRequestValid ==
    OptimizedValidRequest =>
        /\ requests["optimized"].TimeLimit > 0
        /\ requests["optimized"].CPUsPerTask >= 1
        /\ ParseMemoryString(requests["optimized"].Memory).mb > 0

====
